---- MODULE Spec2Model ----
(***************************************************************************)
(* Model of the agent stage runner of src/App.tsx (first App component,    *)
(* lines 306-1133): handleSendMessage, runDeveloperStage, runCriticStage   *)
(* and resumeDeveloperFromDesign, with the chat form of                    *)
(* src/components/ChatInterface.tsx that starts them.                      *)
(*                                                                         *)
(* The handlers are async functions.  Every synchronous segment between    *)
(* two awaits is one atomic step (JavaScript runs it to completion), so an *)
(* action is "the call of a handler up to its first await" or "the         *)
(* resumption of a run after a generateContent call settled, up to the     *)
(* next await or the end of the handler".  The segments are operators on a *)
(* record of the whole component state, composed in the order of the code. *)
(* A run reads the values of the render in which it was started (React     *)
(* closure) for every plain state read, and the latest state for the       *)
(* functional updates setX(prev => ...).                                   *)
(*                                                                         *)
(* ignored counts the submissions of the chat form that returned at its    *)
(* empty-input check (history, not state of the component).                *)
(*                                                                         *)
(* The arrays tasks and messages are kept as one sequence per run: the     *)
(* entries a run appended, in the order it appended them (entry 0 of       *)
(* messages holds the system messages of calls that started no run).  A    *)
(* run appends to the arrays and updates only the tasks it created (by     *)
(* id), so the array of the component is an interleaving of these          *)
(* sequences.  requests is the history of the generateContent calls.       *)
(*                                                                         *)
(* files is the root list of the file tree; a node carries its children    *)
(* and whether it has a children property at all.                          *)
(*                                                                         *)
(* Texts are sequences of one-character strings (request texts) or of      *)
(* tokens (model outputs); the empty sequence is the empty string.         *)
(***************************************************************************)
EXTENDS Integers, Sequences, FiniteSets, TLC

VARIABLES messages, tasks, requests, isProcessing, pendingDeveloperContext,
          designerPauseEnabled, designTokens, designLibrary, designBrief,
          activeFile, activeTab, runs, apiKey, files, ignored,
          appStateSnapshot, livePreviewDoc, previousPreviewDoc,
          closureLivePreviewDoc, lastPreviewRun, symbiotic_app_state_data, call

vars == <<messages, tasks, requests, isProcessing, pendingDeveloperContext,
          designerPauseEnabled, designTokens, designLibrary, designBrief,
          activeFile, activeTab, runs, apiKey, files, ignored,
          appStateSnapshot, livePreviewDoc, previousPreviewDoc,
          closureLivePreviewDoc, lastPreviewRun, symbiotic_app_state_data,
          call>>

\* the preview, the storage of the preview document and the helper call
previewVars ==
  <<appStateSnapshot, livePreviewDoc, previousPreviewDoc,
    closureLivePreviewDoc, lastPreviewRun, symbiotic_app_state_data, call>>

(* ----------------------------- bounds ---------------------------------- *)

\* runs started in one behaviour
MaxRuns == 2

\* fragments a request text of SpecTemplate is assembled from
MaxFrags == 2

\* the runs of the longest scenario (SpecHandoff)
HandoffRuns == MaxRuns + 2

RunIds == 1..HandoffRuns

(* ------------------------------ texts ---------------------------------- *)

Empty == <<>>

Or(a, b) == IF a = Empty THEN b ELSE a

UpperChars == <<"A","B","C","D","E","F","G","H","I","J","K","L","M",
                "N","O","P","Q","R","S","T","U","V","W","X","Y","Z">>

LowerChars == <<"a","b","c","d","e","f","g","h","i","j","k","l","m",
                "n","o","p","q","r","s","t","u","v","w","x","y","z">>

ControlChars == {"\\x07", "\\x00", "\\x7F"}

WhiteChars == {" ", "\n", "\t"}

toLowerCase(s) ==
  [i \in 1..Len(s) |->
     IF \E k \in 1..26 : UpperChars[k] = s[i]
     THEN LowerChars[CHOOSE k \in 1..26 : UpperChars[k] = s[i]]
     ELSE s[i]]

includes(s, k) ==
  \E i \in 1..(Len(s) - Len(k) + 1) : SubSeq(s, i, i + Len(k) - 1) = k

IsWhite(c) == c \in WhiteChars

RECURSIVE trimStart(_)
trimStart(s) ==
  IF s # Empty /\ IsWhite(Head(s)) THEN trimStart(Tail(s)) ELSE s

RECURSIVE trimEnd(_)
trimEnd(s) ==
  IF s # Empty /\ IsWhite(s[Len(s)]) THEN trimEnd(SubSeq(s, 1, Len(s) - 1)) ELSE s

trim(s) == trimEnd(trimStart(s))

PromptCap == 6000

NotControl(c) == c \notin ControlChars

sanitizeForPrompt(value, maxLen) ==
  LET cleaned == SelectSeq(value, NotControl)
  IN  IF Len(cleaned) > maxLen THEN SubSeq(cleaned, 1, maxLen) ELSE cleaned

KwKanban == <<"k","a","n","b","a","n">>
KwCalculator == <<"c","a","l","c","u","l","a","t","o","r">>
KwTodo == <<"t","o","d","o">>
KwLogin == <<"l","o","g","i","n">>

NoTemplate == "none"

\* detectTemplateKey without the toLowerCase
detectTemplateKeyCaseSensitive(request) ==
  IF includes(request, KwKanban) THEN "kanban"
  ELSE IF includes(request, KwCalculator) THEN "calculator"
  ELSE IF includes(request, KwTodo) THEN "todo"
  ELSE IF includes(request, KwLogin) THEN "login"
  ELSE NoTemplate

detectTemplateKey(request) ==
  LET lowerRequest == toLowerCase(request)
  IN  IF includes(lowerRequest, KwKanban) THEN "kanban"
      ELSE IF includes(lowerRequest, KwCalculator) THEN "calculator"
      ELSE IF includes(lowerRequest, KwTodo) THEN "todo"
      ELSE IF includes(lowerRequest, KwLogin) THEN "login"
      ELSE NoTemplate

TEMPLATES ==
  [kanban     |-> [filename |-> <<"KanbanBoard.tsx">>, content |-> <<"template:kanban">>],
   login      |-> [filename |-> <<"Login.tsx">>,       content |-> <<"template:login">>],
   calculator |-> [filename |-> <<"Calculator.tsx">>,  content |-> <<"template:calculator">>],
   todo       |-> [filename |-> <<"TodoList.tsx">>,    content |-> <<"template:todo">>]]

(* --------------------------- data model -------------------------------- *)

DEFAULT_DESIGN_LIBRARY == <<"shadcn/ui">>

DEFAULT_THEME_TOKENS == <<"default-tokens">>

\* FileNode; hasChildren is FALSE when the node has no children property
FileOf(name, content) ==
  [name |-> name, type |-> "file", content |-> content,
   hasChildren |-> FALSE, children |-> <<>>]

FolderOf(name, children) ==
  [name |-> name, type |-> "folder", content |-> Empty,
   hasChildren |-> TRUE, children |-> children]

INITIAL_FILES ==
  << FolderOf(<<"src">>, << FileOf(<<"App.tsx">>, <<"app">>),
                            FileOf(<<"index.css">>, <<"css">>) >>),
     FileOf(<<"package.json">>, <<"package">>),
     FileOf(<<"tsconfig.json">>, <<"tsconfig">>) >>

\* Array.prototype.filter
RECURSIVE filter(_, _)
filter(nodes, name) ==
  IF nodes = <<>> THEN <<>>
  ELSE IF Head(nodes).name # name
       THEN <<Head(nodes)>> \o filter(Tail(nodes), name)
       ELSE filter(Tail(nodes), name)

\* the index of the first node Array.prototype.find returns, 0 when none
FindSrcFolder(nodes) ==
  LET found == {i \in DOMAIN nodes :
                  nodes[i].name = <<"src">> /\ nodes[i].type = "folder"}
  IN  IF found = {} THEN 0 ELSE CHOOSE i \in found : \A j \in found : i <= j

FindThemeJson(nodes) ==
  LET found == {i \in DOMAIN nodes : nodes[i].name = <<"theme.json">>}
  IN  IF found = {} THEN 0 ELSE CHOOSE i \in found : \A j \in found : i <= j

\* the updater pushing into src without removing the node of the same name
placeNewFileNoReplace(prev, newFile) ==
  LET srcFolder == FindSrcFolder(prev)
  IN  IF srcFolder # 0 /\ prev[srcFolder].hasChildren
      THEN [prev EXCEPT ![srcFolder].children = Append(@, newFile)]
      ELSE Append(prev, newFile)

\* runDeveloperStage lines 617-627: setFiles(prev => ...)
placeNewFile(prev, newFile) ==
  LET srcFolder == FindSrcFolder(prev)
  IN  IF srcFolder # 0 /\ prev[srcFolder].hasChildren
      THEN [prev EXCEPT ![srcFolder].children =
              Append(filter(@, newFile.name), newFile)]
      ELSE Append(prev, newFile)

\* handleSendMessage lines 688-698: setFiles(prev => ...) for theme.json
writeThemeFile(prev, tokens) ==
  LET existing == FindThemeJson(prev)
  IN  IF existing # 0 /\ prev[existing].type = "file"
      THEN [prev EXCEPT ![existing].content = tokens]
      ELSE Append(prev, FileOf(<<"theme.json">>, tokens))

\* the effect of lines 440-456, run after a render that changed designTokens
mirrorDesignTokens(prev, tokens) ==
  IF tokens = Empty THEN prev
  ELSE LET isTheme(node) == node.type = "file" /\ node.name = <<"theme.json">>
           next == [i \in DOMAIN prev |->
                      IF isTheme(prev[i]) THEN [prev[i] EXCEPT !.content = tokens]
                      ELSE prev[i]]
       IN  IF \E i \in DOMAIN prev : isTheme(prev[i]) THEN next
           ELSE Append(next, FileOf(<<"theme.json">>, tokens))

Targets == {"team", "architect", "developer", "designer", "qa"}

AgentOptions == [useSearch : BOOLEAN, useThinking : BOOLEAN]

NoOptions == [useSearch |-> FALSE, useThinking |-> FALSE]

NoDesign == [tokens |-> Empty, library |-> Empty, brief |-> Empty]

\* pendingDeveloperContext === null
\* origin: the run whose designer stage stored the context (history, not data)
NullContext ==
  [present |-> FALSE, userRequest |-> Empty, architectPlan |-> Empty,
   options |-> NoOptions, design |-> NoDesign, origin |-> 0]

NoFile == [present |-> FALSE, name |-> Empty, content |-> Empty]

NoParams ==
  [userRequest |-> Empty, architectPlan |-> Empty, design |-> NoDesign,
   options |-> NoOptions, templateKey |-> NoTemplate]

\* what a rejected generateContent call throws: an Error instance, a string or
\* a plain object; code, status and message are the fields at the top level
\* of the value, or those of its `error` property when nested is TRUE
\* (code 0: no code field, status "none": no status field, message Empty: no
\* or an empty message)
NoError ==
  [kind |-> "none", nested |-> FALSE, code |-> 0, status |-> "none",
   message |-> Empty]

\* previousPreviewDoc === null
NoDoc == [present |-> FALSE, value |-> Empty]

\* doc || null
DocOrNull(doc) ==
  IF doc = Empty THEN NoDoc ELSE [present |-> TRUE, value |-> doc]

\* serializeProjectGraph(nodes): name, type and children of every node
RECURSIVE serializeProjectGraph(_)
serializeProjectGraph(nodes) ==
  [i \in DOMAIN nodes |->
     [name |-> nodes[i].name, type |-> nodes[i].type,
      hasChildren |-> nodes[i].hasChildren,
      children |-> IF nodes[i].hasChildren
                   THEN serializeProjectGraph(nodes[i].children) ELSE <<>>]]

\* the members of JSON.stringify(graph, null, 2)
RECURSIVE graphMembers(_)
graphMembers(graph) ==
  IF graph = <<>> THEN Empty
  ELSE <<"{", "\"name\":">> \o Head(graph).name
       \o <<"\"type\":", Head(graph).type>>
       \o (IF Head(graph).hasChildren
           THEN <<"\"children\":", "[">> \o graphMembers(Head(graph).children)
                \o <<"]">>
           ELSE Empty)
       \o <<"}">> \o graphMembers(Tail(graph))

\* the projectGraph state after the effect of lines 432-438
projectGraphOf(nodes) ==
  <<"[">> \o graphMembers(serializeProjectGraph(nodes)) \o <<"]">>

\* the locals of one call of handleSendMessage or resumeDeveloperFromDesign;
\* pauseEnabled and pending are the designerPauseEnabled and
\* pendingDeveloperContext of the render the call was made in, kept when the
\* call's target makes the handler read them (lines 711 and 802-803).
\* handoffAtStart: the origin of the hand-off that was pending when the call
\* was made, 0 when none was (history, not data).
\* error: what the rejected call of the run threw (history, not data).
\* livePreviewDoc, previousPreviewDoc and projectGraph are those of the
\* render the call was made in, which runCriticStage, runDeveloperStage and
\* the designer stage read.
\* a run that has not been started: no call of a handler is in progress for it
IdleRun ==
  [pc |-> "idle", kind |-> "none", target |-> "none", options |-> NoOptions,
   userRequest |-> Empty, templateKey |-> NoTemplate,
   pauseEnabled |-> FALSE, pending |-> NullContext,
   designContext |-> NoDesign, architectPlan |-> Empty,
   shouldPauseForEdit |-> FALSE, taskId |-> 0, params |-> NoParams,
   newFile |-> NoFile, threw |-> FALSE, handoffAtStart |-> 0,
   error |-> NoError, livePreviewDoc |-> Empty,
   previousPreviewDoc |-> NoDoc, projectGraph |-> Empty]

\* the error of a failed fetch
NetworkError ==
  [kind |-> "Error", nested |-> FALSE, code |-> 0, status |-> "none",
   message |-> <<"f","e","t","c","h"," ","f","a","i","l","e","d">>]

\* sample request texts typed into the chat input
Requests ==
  { <<"T","o","D","o">>, <<"a","p","p">>, <<" ">> }

\* what a settled generateContent call delivers: text that parses as the
\* requested JSON object, text that does not parse, or a thrown error
JsonOutcomes == {"json", "garbage", "throw"}

TextOutcomes == {"text", "throw"}

RunTag(r) == ToString(r)

(* ------------------- the component state as a record ------------------- *)
(* closureLivePreviewDoc is the livePreviewDoc that the refreshLivePreview  *)
(* of the current render reads: useCallback(..., [activeFile]) keeps the    *)
(* callback, with the livePreviewDoc of its render, until activeFile        *)
(* changes.                                                                 *)


St ==
  [messages |-> messages, tasks |-> tasks, requests |-> requests,
   isProcessing |-> isProcessing, pending |-> pendingDeveloperContext,
   designTokens |-> designTokens, designLibrary |-> designLibrary,
   designBrief |-> designBrief, activeFile |-> activeFile,
   activeTab |-> activeTab, runs |-> runs, files |-> files]

Commit(s) ==
  /\ messages' = s.messages
  /\ tasks' = s.tasks
  /\ requests' = s.requests
  /\ isProcessing' = s.isProcessing
  /\ pendingDeveloperContext' = s.pending
  /\ designTokens' = s.designTokens
  /\ designLibrary' = s.designLibrary
  /\ designBrief' = s.designBrief
  /\ activeFile' = s.activeFile
  /\ activeTab' = s.activeTab
  /\ runs' = s.runs
  /\ files' = s.files
  /\ closureLivePreviewDoc' =
       IF s.activeFile # activeFile THEN livePreviewDoc ELSE closureLivePreviewDoc
  /\ UNCHANGED <<designerPauseEnabled, apiKey, ignored, appStateSnapshot,
                 livePreviewDoc, previousPreviewDoc, lastPreviewRun,
                 symbiotic_app_state_data, call>>

\* setMessages(prev => [...prev, msg])
addMessage(s, r, sender, role, text) ==
  [s EXCEPT !.messages[r] =
     Append(@, [sender |-> sender, agentRole |-> role, text |-> text])]

\* const taskId = generateId(); setTasks(prev => [...prev, {..., status: 'active'}])
addTask(s, r, title, role) ==
  [s EXCEPT !.tasks[r] = Append(@, [id |-> Len(@) + 1, title |-> title,
                                    status |-> "active", assignedTo |-> role]),
            !.runs[r].taskId = Len(s.tasks[r]) + 1]

\* setTasks(prev => prev.map(t => t.id === taskId ? {...t, status: 'completed'} : t))
completeTask(s, r, id) ==
  [s EXCEPT !.tasks[r] =
     [i \in DOMAIN @ |-> IF @[i].id = id
                         THEN [@[i] EXCEPT !.status = "completed"]
                         ELSE @[i]]]

\* the cap of the preview document in the designer's request
PreviewCap == 4000

\* the fragments substituted into the `contents` of a request; a fragment
\* the template of the request does not have is empty
NoFragments ==
  [userRequest |-> Empty, architectPlan |-> Empty, tokens |-> Empty,
   library |-> Empty, brief |-> Empty, projectGraph |-> Empty,
   current |-> Empty, previous |-> Empty]

\* the designer's request, lines 669-670
designerContents(run) ==
  [NoFragments EXCEPT
     !.userRequest = run.userRequest,
     !.current = sanitizeForPrompt(Or(run.livePreviewDoc, <<"not available">>),
                                   PreviewCap)]

\* the architect's request: the object literal of lines 718-733 has two
\* `contents` properties and the later one, `contents: userRequest`, is the
\* one the call gets
architectContents(run) ==
  [NoFragments EXCEPT !.userRequest = run.userRequest]

\* the request of the developer block inline in handleSendMessage, lines
\* 771-778
inlineDeveloperContents(run) ==
  [NoFragments EXCEPT !.architectPlan = run.architectPlan,
                      !.userRequest = run.userRequest]

\* the request of runDeveloperStage, lines 579-594
developerContents(run) ==
  [NoFragments EXCEPT
     !.architectPlan = run.params.architectPlan,
     !.library = sanitizeForPrompt(run.params.design.library, PromptCap),
     !.tokens = sanitizeForPrompt(run.params.design.tokens, PromptCap),
     !.brief = sanitizeForPrompt(run.params.design.brief, PromptCap),
     !.projectGraph = sanitizeForPrompt(run.projectGraph, PromptCap),
     !.userRequest = run.params.userRequest]

\* the request of runCriticStage, lines 544-553
criticContents(run) ==
  [NoFragments EXCEPT
     !.tokens = sanitizeForPrompt(run.params.design.tokens, PromptCap),
     !.library = sanitizeForPrompt(run.params.design.library, PromptCap),
     !.brief = sanitizeForPrompt(run.params.design.brief, PromptCap),
     !.architectPlan = sanitizeForPrompt(run.params.architectPlan, PromptCap),
     !.userRequest = sanitizeForPrompt(run.params.userRequest, PromptCap),
     !.current = sanitizeForPrompt(run.livePreviewDoc, PromptCap),
     !.previous =
        sanitizeForPrompt(IF run.previousPreviewDoc.present
                             /\ run.previousPreviewDoc.value # Empty
                          THEN run.previousPreviewDoc.value
                          ELSE <<"none">>, PromptCap)]

\* the `contents` of the request a run issues for a role at a call site
contentsOf(run, role, site) ==
  IF role = "designer" THEN designerContents(run)
  ELSE IF role = "architect" THEN architectContents(run)
  ELSE IF role = "critic" THEN criticContents(run)
  ELSE IF site = "handleSendMessage" THEN inlineDeveloperContents(run)
  ELSE developerContents(run)

\* await ai.models.generateContent(...): the request is issued and the run
\* is suspended at pc until the call settles
generateContent(s, r, role, site, pc) ==
  [s EXCEPT !.requests[r] = Append(@, [role |-> role, site |-> site,
                                       state |-> "pending",
                                       outcome |-> "none",
                                       contents |->
                                         contentsOf(s.runs[r], role, site)]),
            !.runs[r].pc = pc]

\* the pending generateContent call of run r settles: it returns a response
\* or throws
settle(s, r, outcome) ==
  [s EXCEPT !.requests[r][Len(s.requests[r])].state =
              IF outcome = "throw" THEN "threw" ELSE "returned",
            !.requests[r][Len(s.requests[r])].outcome = outcome]

\* the handler of run r has returned (or its promise rejected)
endRun(s, r) ==
  [s EXCEPT !.runs[r].pc = "done", !.runs[r].taskId = 0,
            !.runs[r].designContext = NoDesign,
            !.runs[r].architectPlan = Empty,
            !.runs[r].shouldPauseForEdit = FALSE]

\* the missing-credential branch without its setIsProcessing(false)
missingKeyStillProcessing(s) ==
  [addMessage(s, 0, "system", "none", <<"Missing Gemini API key">>)
     EXCEPT !.isProcessing = TRUE]

\* the missing-credential branch of handleSendMessage, lines 639-644
missingKey(s) ==
  [addMessage(s, 0, "system", "none", <<"Missing Gemini API key">>)
     EXCEPT !.isProcessing = FALSE]

(* ------------------- segments of the async handlers -------------------- *)
(* Each operator is the code from one point of a handler up to the next    *)
(* await (or the end), as a function of the component state.               *)

\* handleSendMessage, finally { setIsProcessing(false) }
handleSendMessageFinally(s, r) ==
  endRun([s EXCEPT !.isProcessing = FALSE], r)

\* a catch that only logs
handleSendMessageCatchSilent(s, r, e) ==
  handleSendMessageFinally([s EXCEPT !.runs[r].threw = TRUE,
                                     !.runs[r].error = e], r)

LeakMarker ==
  <<"r","e","p","o","r","t","e","d"," ","a","s"," ","l","e","a","k","e","d">>

ApiKeyMarker == <<"a","p","i"," ","k","e","y">>

LeakedKeyText ==
  <<"Gemini API key was reported as leaked. Generate a new API key in Google AI Studio and update your .env.local file.">>

PermissionDeniedText ==
  <<"Permission denied. Check your Gemini API key configuration.">>

\* the flags formatAgentError computes from the fields of an object payload
isLeakedKey(error) ==
  LET normalized == toLowerCase(error.message)
      hasLeakedMessage == includes(normalized, LeakMarker)
      mentionsApiKey == includes(normalized, ApiKeyMarker)
      isPermissionDeniedStatus ==
        error.code = 403 /\ error.status = "PERMISSION_DENIED"
  IN  hasLeakedMessage \/ (isPermissionDeniedStatus /\ mentionsApiKey)

isPermissionDenied(error) ==
  error.code = 403 \/ error.status = "PERMISSION_DENIED"

formatAgentError(error) ==
  IF error.kind = "none" THEN Empty
  ELSE IF error.kind = "Error" THEN error.message
  ELSE IF error.kind = "string" THEN error.message
  ELSE IF isLeakedKey(error) THEN LeakedKeyText
  ELSE IF isPermissionDenied(error) THEN Or(error.message, PermissionDeniedText)
  ELSE error.message

\* the text of the system message of the catch block
errorMessage(e) ==
  LET detail == formatAgentError(e)
  IN  (IF detail # Empty
       THEN <<"Error connecting to agents: ">> \o detail
       ELSE <<"Error connecting to agents. Mission aborted.">>)
      \o <<" Please verify your Gemini API key and network access.">>

\* handleSendMessage, catch (e): one system message, then finally
handleSendMessageCatch(s, r, e) ==
  handleSendMessageFinally(
    addMessage([s EXCEPT !.runs[r].threw = TRUE, !.runs[r].error = e],
               r, "system", "none", errorMessage(e)), r)

\* a rejected await: handleSendMessage catches it; resumeDeveloperFromDesign
\* has no try/catch, its promise rejects and nothing after the await runs
awaitRejected(s, r, e) ==
  IF s.runs[r].kind = "submit"
  THEN handleSendMessageCatch(s, r, e)
  ELSE endRun([s EXCEPT !.runs[r].threw = TRUE, !.runs[r].error = e], r)

\* after `await runDeveloperStage(...)` returned:
\*   handleSendMessage:          setPendingDeveloperContext(null); finally
\*   resumeDeveloperFromDesign:  setPendingDeveloperContext(null); setIsProcessing(false)
afterRunDeveloperStage(s, r) ==
  endRun([s EXCEPT !.pending = NullContext, !.isProcessing = FALSE], r)

\* runCriticStage up to its await
runCriticStage(s, r) ==
  generateContent(addTask(s, r, "Critic Review", "critic"),
                  r, "critic", "runCriticStage", "await_critic")

\* runCriticStage after its await, and the return through runDeveloperStage
criticReturned(s, r, text) ==
  LET s1 == addMessage(s, r, "agent", "critic",
                       Or(text, <<"Critic review complete.">>))
      s2 == completeTask(s1, r, s.runs[r].taskId)
  IN  afterRunDeveloperStage(s2, r)

\* runDeveloperStage from `const newFile` to the await of runCriticStage
developerEmit(s, r, filename, generatedCode, explanation) ==
  LET newFile == [present |-> TRUE, name |-> filename, content |-> generatedCode]
      s1 == [s EXCEPT !.files = placeNewFile(@, FileOf(filename, generatedCode)),
                      !.activeFile = newFile, !.activeTab = "preview",
                      !.runs[r].newFile = newFile]
      s2 == addMessage(s1, r, "agent", "developer", explanation)
      s3 == completeTask(s2, r, s.runs[r].taskId)
  IN  runCriticStage(s3, r)

\* templateKey && !options.useThinking && !options.useSearch
useTemplate(templateKey, options) ==
  templateKey # NoTemplate /\ ~options.useThinking /\ ~options.useSearch

\* runDeveloperStage up to its first await
runDeveloperStage(s, r, params) ==
  LET s1 == addTask([s EXCEPT !.runs[r].params = params], r,
                    "Implementation", "developer")
  IN  IF useTemplate(params.templateKey, params.options)
      THEN developerEmit(s1, r, TEMPLATES[params.templateKey].filename,
                         TEMPLATES[params.templateKey].content,
                         <<"Built component.">>)
      ELSE generateContent(s1, r, "developer", "runDeveloperStage",
                           "await_developer")

\* the texts of lines 611 and 612
ExtractionError ==
  <<"// Extraction Error: Failed to parse code output. Check Console.">>

FormattingError == <<"Developer agent encountered a JSON formatting error.">>

\* runDeveloperStage after the developer call returned: try { JSON.parse } catch
developerReturned(s, r, outcome) ==
  IF outcome = "json"
  THEN developerEmit(s, r, <<"Widget.tsx">>, <<"code", RunTag(r)>>,
                     <<"explanation", RunTag(r)>>)
  ELSE developerEmit(s, r, <<"Component.tsx">>, ExtractionError, FormattingError)

\* handleSendMessage lines 801-806: the call of runDeveloperStage.  The
\* pendingDeveloperContext read here is the one of the render in which the
\* run was submitted.
handleSendMessageRunDeveloper(s, r) ==
  LET run == s.runs[r]
      designForDev == IF run.pending.present THEN run.pending.design
                      ELSE run.designContext
      architectForDev == IF run.pending.present
                         THEN Or(run.pending.architectPlan, run.architectPlan)
                         ELSE run.architectPlan
  IN  IF run.target \in {"team", "developer"}
      THEN runDeveloperStage(s, r,
             [userRequest |-> run.userRequest, architectPlan |-> architectForDev,
              design |-> designForDev, options |-> run.options,
              templateKey |-> run.templateKey])
      ELSE handleSendMessageFinally(s, r)

\* the inline developer block without the pause check of lines 752-755
handleSendMessageInlineDeveloperNoPause(s, r) ==
  LET run == s.runs[r]
  IN  IF run.target \in {"team", "developer"}
      THEN LET s1 == addTask(s, r, "Implementation", "developer")
           IN  IF useTemplate(run.templateKey, run.options)
               THEN handleSendMessageRunDeveloper(s1, r)
               ELSE generateContent(s1, r, "developer", "handleSendMessage",
                                    "await_inline_developer")
      ELSE handleSendMessageRunDeveloper(s, r)

\* handleSendMessage lines 752-799: the pause check and the developer block
\* written inline in the handler, up to its await
handleSendMessageInlineDeveloper(s, r) ==
  LET run == s.runs[r]
  IN  IF run.shouldPauseForEdit
      THEN handleSendMessageFinally([s EXCEPT !.isProcessing = FALSE], r)
      ELSE IF run.target \in {"team", "developer"}
      THEN LET s1 == addTask(s, r, "Implementation", "developer")
           IN  IF useTemplate(run.templateKey, run.options)
               THEN handleSendMessageRunDeveloper(s1, r)
               ELSE generateContent(s1, r, "developer", "handleSendMessage",
                                    "await_inline_developer")
      ELSE handleSendMessageRunDeveloper(s, r)

\* handleSendMessage lines 734-750, after the architect call returned
architectReturned(s, r, text) ==
  LET s1 == addMessage([s EXCEPT !.runs[r].architectPlan = text], r,
                       "agent", "architect", text)
      s2 == completeTask(s1, r, s.runs[r].taskId)
      s3 == [s2 EXCEPT !.pending =
               IF @.present THEN [@ EXCEPT !.architectPlan = text] ELSE @]
  IN  handleSendMessageInlineDeveloper(s3, r)

\* the architect stage entered for every target that is not the developer's
handleSendMessageArchitectUnlessDeveloper(s, r) ==
  IF s.runs[r].target \in {"team", "architect", "designer"}
  THEN generateContent(addTask(s, r, "Architecture Planning", "architect"),
                       r, "architect", "handleSendMessage", "await_architect")
  ELSE handleSendMessageInlineDeveloper(s, r)

\* handleSendMessage lines 714-733, the architect stage up to its await
handleSendMessageArchitect(s, r) ==
  IF s.runs[r].target \in {"team", "architect"}
  THEN generateContent(addTask(s, r, "Architecture Planning", "architect"),
                       r, "architect", "handleSendMessage", "await_architect")
  ELSE handleSendMessageInlineDeveloper(s, r)

\* a designer stage whose parse error leaves the try block of the handler
designerReturnedParseAborts(s, r, outcome) ==
  LET run == s.runs[r]
      tokens == <<"tokens", RunTag(r)>>
      library == <<"chakra-ui">>
      brief == <<"brief", RunTag(r)>>
      designContext == [tokens |-> tokens, library |-> library, brief |-> brief]
      s1 == addMessage([s EXCEPT !.designTokens = tokens,
                                 !.designLibrary = library,
                                 !.designBrief = brief,
                                 !.files = mirrorDesignTokens(
                                             writeThemeFile(@, tokens), tokens),
                                 !.runs[r].designContext = designContext],
                       r, "agent", "designer", <<"Library/Brief/Tokens saved">>)
      s2 == completeTask(s1, r, run.taskId)
      s3 == [s2 EXCEPT
               !.pending = [present |-> TRUE, userRequest |-> run.userRequest,
                            architectPlan |-> Empty, options |-> run.options,
                            design |-> designContext, origin |-> r],
               !.runs[r].shouldPauseForEdit =
                   (run.pauseEnabled /\ run.target # "designer")]
  IN  IF outcome = "json" THEN handleSendMessageArchitect(s3, r)
      ELSE handleSendMessageCatch(s, r, NetworkError)

\* handleSendMessage lines 678-712, after the designer call returned
designerReturned(s, r, outcome) ==
  LET run == s.runs[r]
      tokens == <<"tokens", RunTag(r)>>
      library == <<"chakra-ui">>
      brief == <<"brief", RunTag(r)>>
      designContext == IF outcome = "json"
                       THEN [tokens |-> tokens, library |-> library, brief |-> brief]
                       ELSE run.designContext
      s1 == IF outcome = "json"
            THEN addMessage([s EXCEPT !.designTokens = tokens,
                                      !.designLibrary = library,
                                      !.designBrief = brief,
                                      !.files = mirrorDesignTokens(
                                                  writeThemeFile(@, tokens), tokens),
                                      !.runs[r].designContext = designContext],
                            r, "agent", "designer", <<"Library/Brief/Tokens saved">>)
            ELSE s
      s2 == completeTask(s1, r, run.taskId)
      s3 == [s2 EXCEPT
               !.pending = [present |-> TRUE, userRequest |-> run.userRequest,
                            architectPlan |-> Empty, options |-> run.options,
                            design |-> designContext, origin |-> r],
               !.runs[r].shouldPauseForEdit =
                   (run.pauseEnabled /\ run.target # "designer")]
  IN  handleSendMessageArchitect(s3, r)

\* the designer stage entered for every target but the developer's
handleSendMessageDesignerUnlessDeveloper(s, r) ==
  IF s.runs[r].target # "developer"
  THEN generateContent(addTask(s, r, "Design System Draft", "designer"),
                       r, "designer", "handleSendMessage", "await_designer")
  ELSE handleSendMessageArchitect(s, r)

\* handleSendMessage lines 661-677, the designer stage up to its await
handleSendMessageDesigner(s, r) ==
  IF s.runs[r].target \in {"team", "designer"}
  THEN generateContent(addTask(s, r, "Design System Draft", "designer"),
                       r, "designer", "handleSendMessage", "await_designer")
  ELSE handleSendMessageArchitect(s, r)

\* sample messages of error payloads
MsgQuota == <<"Q","u","o","t","a">>

MsgLeaked == <<"K","e","y"," ">> \o LeakMarker

MsgLeakedCaps ==
  <<"K","e","y"," ","R","e","p","o","r","t","e","d"," ","A","s"," ",
    "L","e","a","k","e","d">>

MsgBadKey == <<"A","P","I"," ","k","e","y"," ","i","n","v","a","l","i","d">>

ErrorMessages == {Empty, MsgQuota, MsgLeaked, MsgLeakedCaps, MsgBadKey}

ErrorCodes == {403, 500, 0}

ErrorStatuses == {"PERMISSION_DENIED", "INTERNAL", "none"}

\* sample values a generateContent call rejects with
Errors ==
  {NoError}
  \cup [kind : {"string"}, nested : {FALSE}, code : {0}, status : {"none"},
        message : ErrorMessages]
  \cup [kind : {"Error"}, nested : {FALSE}, code : ErrorCodes,
        status : ErrorStatuses, message : ErrorMessages]
  \cup [kind : {"object"}, nested : BOOLEAN, code : ErrorCodes,
        status : ErrorStatuses, message : ErrorMessages]

(* ------------------------------ actions -------------------------------- *)

\* no helper call is being looked at; parts: the pieces the argument of a
\* call was assembled from (history, not data)
NoCall ==
  [fn |-> "none", arg |-> Empty, parts |-> <<>>, result |-> Empty,
   returned |-> FALSE]

\* a call of the helper fn with the argument arg, before it is evaluated
CallOf(fn, arg, parts) ==
  [fn |-> fn, arg |-> arg, parts |-> parts, result |-> Empty,
   returned |-> FALSE]

\* localStorage.getItem(key) === null
NoItem == [present |-> FALSE, value |-> Empty]

\* the state of the component after the first render and its effects, the
\* file tree being the one of localStorage ('symbiotic_files') or
\* INITIAL_FILES and nothing of the preview being stored
InitApp(stored) ==
  /\ messages = [r \in 0..HandoffRuns |-> <<>>]
  /\ tasks = [r \in RunIds |-> <<>>]
  /\ requests = [r \in RunIds |-> <<>>]
  /\ isProcessing = FALSE
  /\ pendingDeveloperContext = NullContext
  /\ designerPauseEnabled = TRUE
  /\ designTokens = DEFAULT_THEME_TOKENS
  /\ designLibrary = DEFAULT_DESIGN_LIBRARY
  /\ designBrief = Empty
  /\ activeFile = NoFile
  /\ activeTab = "editor"
  /\ runs = [r \in RunIds |-> IdleRun]
  /\ apiKey \in {Empty, <<"key">>}
  /\ files \in {mirrorDesignTokens(f, DEFAULT_THEME_TOKENS) : f \in stored}
  /\ ignored = 0
  /\ appStateSnapshot = Empty
  /\ livePreviewDoc = Empty
  /\ previousPreviewDoc = NoDoc
  /\ closureLivePreviewDoc = Empty
  /\ lastPreviewRun = 0
  /\ symbiotic_app_state_data = NoItem

InitFrom(stored) == InitApp(stored) /\ call = NoCall

\* nothing stored: a first start
Init == InitFrom({INITIAL_FILES})

FreeRuns == {r \in RunIds : runs[r].pc = "idle"}

Started == Cardinality(RunIds \ FreeRuns)

NextRun == CHOOSE r \in FreeRuns : \A q \in FreeRuns : r <= q

InFlight(r) == runs[r].pc \notin {"idle", "done"}

\* handleSendMessage(target, options) with inputValue = text, up to its
\* first await
handleSendMessage(text, target, options, limit) ==
  IF trim(text) = Empty
  THEN UNCHANGED vars
  ELSE IF apiKey = Empty
  THEN /\ Len(messages[0]) < MaxRuns
       /\ Commit(missingKey(St))
  ELSE /\ Started < limit
       /\ LET r == NextRun
              userRequest == sanitizeForPrompt(text, PromptCap)
              s1 == [addMessage(St, r, "user", "none", text)
                       EXCEPT !.isProcessing = TRUE,
                              !.runs[r] =
                                [IdleRun EXCEPT
                                   !.kind = "submit", !.target = target,
                                   !.handoffAtStart = pendingDeveloperContext.origin,
                                   !.options = options,
                                   !.userRequest = userRequest,
                                   !.templateKey = detectTemplateKey(userRequest),
                                   !.pauseEnabled =
                                      (designerPauseEnabled
                                         /\ target \in {"team", "designer"}),
                                   !.pending =
                                      IF target \in {"team", "developer"}
                                      THEN pendingDeveloperContext
                                      ELSE NullContext,
                                   !.designContext =
                                      [tokens |-> designTokens,
                                       library |-> Or(designLibrary, DEFAULT_DESIGN_LIBRARY),
                                       brief |-> designBrief],
                                   !.livePreviewDoc = livePreviewDoc,
                                   !.previousPreviewDoc = previousPreviewDoc,
                                   !.projectGraph = projectGraphOf(files)]]
          IN  Commit(handleSendMessageDesigner(s1, r))

\* ChatInterface: the Send button submits the form (disabled while
\* isProcessing); Ctrl/Cmd+Enter in the textarea calls handleSubmit directly
handleSubmit(Rs, Ts, Os, limit) ==
  /\ Started < limit \/ apiKey = Empty
  /\ \E via \in {"button", "key"}, text \in Rs, target \in Ts, options \in Os :
    /\ via = "button" => ~isProcessing
    /\ IF trim(text) = Empty
       THEN /\ ignored < MaxRuns
            /\ ignored' = ignored + 1
            /\ UNCHANGED <<messages, tasks, requests, isProcessing,
                           pendingDeveloperContext, designerPauseEnabled,
                           designTokens, designLibrary, designBrief,
                           activeFile, activeTab, runs, apiKey, files>>
            /\ UNCHANGED previewVars
       ELSE handleSendMessage(text, target, options, limit)

DesignerSettles(Outcomes) ==
  \E r \in RunIds, outcome \in Outcomes :
    /\ runs[r].pc = "await_designer"
    /\ Commit(IF outcome = "throw" THEN awaitRejected(settle(St, r, outcome), r, NetworkError)
              ELSE designerReturned(settle(St, r, outcome), r, outcome))

\* a text of one character more than the cap of sanitizeForPrompt
LongText == [i \in 1..(PromptCap + 1) |-> "x"]

\* response.text of the architect call
planOf(r, outcome) ==
  IF outcome = "long" THEN LongText ELSE <<"plan", RunTag(r)>>

ArchitectSettles(Outcomes) ==
  \E r \in RunIds, outcome \in Outcomes :
    /\ runs[r].pc = "await_architect"
    /\ Commit(IF outcome = "throw" THEN awaitRejected(settle(St, r, outcome), r, NetworkError)
              ELSE architectReturned(settle(St, r, outcome), r, planOf(r, outcome)))

InlineDeveloperSettles(Outcomes) ==
  \E r \in RunIds, outcome \in Outcomes :
    /\ runs[r].pc = "await_inline_developer"
    /\ Commit(IF outcome = "throw" THEN awaitRejected(settle(St, r, outcome), r, NetworkError)
              ELSE handleSendMessageRunDeveloper(settle(St, r, outcome), r))

DeveloperSettles(Outcomes) ==
  \E r \in RunIds, outcome \in Outcomes :
    /\ runs[r].pc = "await_developer"
    /\ Commit(IF outcome = "throw" THEN awaitRejected(settle(St, r, outcome), r, NetworkError)
              ELSE developerReturned(settle(St, r, outcome), r, outcome))

CriticSettles(Outcomes) ==
  \E r \in RunIds, outcome \in Outcomes :
    /\ runs[r].pc = "await_critic"
    /\ Commit(IF outcome = "throw" THEN awaitRejected(settle(St, r, outcome), r, NetworkError)
              ELSE criticReturned(settle(St, r, outcome), r, <<"review", RunTag(r)>>))

\* the pending generateContent call of a run rejects with the error e
GenerationRejects(Errs) ==
  \E r \in RunIds, e \in Errs :
    /\ runs[r].pc \in {"await_designer", "await_architect",
                       "await_inline_developer", "await_developer",
                       "await_critic"}
    /\ Commit(awaitRejected(settle(St, r, "throw"), r, e))

\* the Send to Coder button (disabled when nothing is pending or while
\* isProcessing) calls resumeDeveloperFromDesign
resumeDeveloperFromDesign(limit) ==
  /\ pendingDeveloperContext.present
  /\ ~isProcessing
  /\ IF apiKey = Empty
     THEN /\ Len(messages[0]) < MaxRuns
          /\ Commit(addMessage(St, 0, "system", "none", <<"Missing Gemini API key">>))
     ELSE /\ Started < limit
          /\ LET r == NextRun
                 context == pendingDeveloperContext
                 s1 == [St EXCEPT
                          !.isProcessing = TRUE,
                          !.runs[r] =
                            [IdleRun EXCEPT
                               !.kind = "resume", !.target = "developer",
                               !.handoffAtStart = context.origin,
                               !.options = context.options,
                               !.userRequest = context.userRequest,
                               !.templateKey = detectTemplateKey(context.userRequest),
                               !.pending = context,
                               !.livePreviewDoc = livePreviewDoc,
                               !.previousPreviewDoc = previousPreviewDoc,
                               !.projectGraph = projectGraphOf(files)]]
             IN  Commit(runDeveloperStage(s1, r,
                   [userRequest |-> context.userRequest,
                    architectPlan |-> context.architectPlan,
                    design |-> [context.design EXCEPT
                                  !.tokens = Or(designTokens, context.design.tokens)],
                    options |-> context.options,
                    templateKey |-> detectTemplateKey(context.userRequest)]))

\* the Pause & Edit / Auto-send toggle: setDesignerPauseEnabled(prev => !prev)
toggleDesignerPause ==
  /\ designerPauseEnabled' = ~designerPauseEnabled
  /\ UNCHANGED <<messages, tasks, requests, isProcessing,
                 pendingDeveloperContext, designTokens, designLibrary,
                 designBrief, activeFile, activeTab, runs, apiKey, files,
                 ignored>>
  /\ UNCHANGED previewVars

\* the theme.json textarea: setDesignTokens(e.target.value), and the effect
\* of lines 440-456 after the render
editDesignTokens(Values) ==
  \E value \in Values :
    /\ value # designTokens
    /\ designTokens' = value
    /\ files' = mirrorDesignTokens(files, value)
    /\ UNCHANGED <<messages, tasks, requests, isProcessing,
                   pendingDeveloperContext, designerPauseEnabled,
                   designLibrary, designBrief, activeFile, activeTab, runs,
                   apiKey, ignored>>
    /\ UNCHANGED previewVars

\* every target, the sample requests, default options
Next ==
  \/ handleSubmit(Requests, Targets, {NoOptions}, MaxRuns)
  \/ GenerationRejects(Errors)
  \/ DesignerSettles(JsonOutcomes)
  \/ ArchitectSettles(TextOutcomes)
  \/ InlineDeveloperSettles(JsonOutcomes)
  \/ DeveloperSettles(JsonOutcomes)
  \/ CriticSettles(TextOutcomes)
  \/ resumeDeveloperFromDesign(MaxRuns)
  \/ toggleDesignerPause

Spec == Init /\ [][Next]_vars

(* Specifications of the same handlers for submissions to a few targets.   *)

AppText == <<"a","p","p">>

TodoText == <<"T","o","D","o">>

\* submissions to one agent that is not the designer
NextSolo ==
  \/ handleSubmit({AppText, TodoText}, {"architect", "developer", "qa"},
                  {NoOptions}, MaxRuns)
  \/ ArchitectSettles(TextOutcomes)
  \/ InlineDeveloperSettles(JsonOutcomes)
  \/ DeveloperSettles(JsonOutcomes)
  \/ CriticSettles(TextOutcomes)

SpecSolo == Init /\ [][NextSolo]_vars

\* submissions to the architect whose generation call rejects
NextErrors ==
  \/ handleSubmit({AppText}, {"architect"}, {NoOptions}, MaxRuns)
  \/ GenerationRejects(Errors)

SpecErrors == Init /\ [][NextErrors]_vars

\* submissions to the designer, and the hand-off they leave
NextDesigner ==
  \/ handleSubmit({AppText, TodoText}, {"designer"}, {NoOptions}, MaxRuns)
  \/ DesignerSettles(JsonOutcomes)
  \/ DeveloperSettles(JsonOutcomes)
  \/ CriticSettles(TextOutcomes)
  \/ resumeDeveloperFromDesign(MaxRuns)
  \/ toggleDesignerPause

SpecDesigner == Init /\ [][NextDesigner]_vars

\* the same, every generateContent call eventually returning or throwing
SpecDesignerSettling ==
  /\ SpecDesigner
  /\ WF_vars(DesignerSettles(JsonOutcomes))
  /\ WF_vars(DeveloperSettles(JsonOutcomes))
  /\ WF_vars(CriticSettles(TextOutcomes))

\* submissions to the team, every call returning well-formed output or throwing
NextTeam ==
  \/ handleSubmit({AppText}, {"team"}, {NoOptions}, MaxRuns)
  \/ DesignerSettles({"json", "throw"})
  \/ ArchitectSettles(TextOutcomes)
  \/ InlineDeveloperSettles({"json", "throw"})
  \/ DeveloperSettles({"json", "throw"})
  \/ CriticSettles(TextOutcomes)
  \/ resumeDeveloperFromDesign(MaxRuns)
  \/ toggleDesignerPause

SpecTeam == Init /\ [][NextTeam]_vars

\* a hand-off left by the designer, resumed while other submissions are made
\* with Ctrl/Cmd+Enter; every call returns well-formed output
NextHandoff ==
  \/ handleSubmit({AppText}, {"designer", "qa"}, {NoOptions}, HandoffRuns)
  \/ DesignerSettles({"json"})
  \/ DeveloperSettles({"json"})
  \/ CriticSettles({"text"})
  \/ resumeDeveloperFromDesign(HandoffRuns)

SpecHandoff == Init /\ [][NextHandoff]_vars

\* file trees read from localStorage: the initial one with files generated
\* before, one without a src folder, one whose src node has no children
\* property, one with a file and a folder named src, one with two children
\* of the same name
StoredFiles ==
  { INITIAL_FILES,
    << FolderOf(<<"src">>, << FileOf(<<"Widget.tsx">>, <<"old">>),
                              FileOf(<<"App.tsx">>, <<"app">>),
                              FileOf(<<"TodoList.tsx">>, <<"old">>) >>),
       FileOf(<<"package.json">>, <<"package">>) >>,
    << FileOf(<<"package.json">>, <<"package">>),
       FileOf(<<"Widget.tsx">>, <<"old">>) >>,
    << [FolderOf(<<"src">>, <<>>) EXCEPT !.hasChildren = FALSE],
       FileOf(<<"package.json">>, <<"package">>) >>,
    << FileOf(<<"src">>, <<"notes">>),
       FolderOf(<<"lib">>, << FileOf(<<"Widget.tsx">>, <<"lib">>) >>),
       FolderOf(<<"src">>, << FileOf(<<"Widget.tsx">>, <<"old">>) >>) >>,
    << FolderOf(<<"src">>, << FileOf(<<"Widget.tsx">>, <<"old">>),
                              FileOf(<<"index.css">>, <<"css">>),
                              FileOf(<<"Widget.tsx">>, <<"older">>) >>) >> }

InitStored == InitFrom(StoredFiles)

\* submissions to the developer over the stored file trees
NextFiles ==
  \/ handleSubmit({AppText, TodoText}, {"developer"}, {NoOptions}, MaxRuns)
  \/ InlineDeveloperSettles(JsonOutcomes)
  \/ DeveloperSettles(JsonOutcomes)
  \/ CriticSettles({"text"})

SpecFiles == InitStored /\ [][NextFiles]_vars

\* sibling names are unique in the root list and in every children list
UniqueNames(nodes) ==
  /\ \A i, j \in DOMAIN nodes : nodes[i].name = nodes[j].name => i = j
  /\ \A k \in DOMAIN nodes :
       \A i, j \in DOMAIN nodes[k].children :
         nodes[k].children[i].name = nodes[k].children[j].name => i = j

\* the stored trees with unique sibling names
InitUnique == InitFrom({f \in StoredFiles : UniqueNames(f)})

\* values typed into the theme.json textarea
TokenEdits == {Empty, <<"edited">>}

\* developer and designer stages and token edits over those trees
NextTree ==
  \/ handleSubmit({AppText}, {"developer", "designer"}, {NoOptions}, MaxRuns)
  \/ DesignerSettles({"json"})
  \/ InlineDeveloperSettles({"json"})
  \/ DeveloperSettles({"json"})
  \/ CriticSettles({"text"})
  \/ editDesignTokens(TokenEdits)

SpecTree == InitUnique /\ [][NextTree]_vars

\* submissions to the team, the architect returning a short plan or one
\* longer than the cap
NextPrompt ==
  \/ handleSubmit({AppText}, {"team"}, {NoOptions}, MaxRuns)
  \/ DesignerSettles({"json"})
  \/ ArchitectSettles({"text", "long"})
  \/ InlineDeveloperSettles({"json"})
  \/ DeveloperSettles({"json"})
  \/ CriticSettles({"text"})
  \/ toggleDesignerPause

SpecPrompt == Init /\ [][NextPrompt]_vars

\* submissions that run the designer stage with pausing enabled, its call
\* returning text that parses or text that does not, between edits of the
\* tokens
NextParse ==
  \/ handleSubmit({AppText}, {"team", "designer"}, {NoOptions}, MaxRuns)
  \/ DesignerSettles({"json", "garbage"})
  \/ ArchitectSettles({"text"})
  \/ editDesignTokens(TokenEdits)

SpecParse == Init /\ [][NextParse]_vars

\* texts of the chat input that String.prototype.trim empties
BlankTexts == {Empty, <<" ">>, <<" ", "\n">>}

\* submissions of blank and non-blank input
NextInput ==
  \/ handleSubmit(BlankTexts \cup {AppText, TodoText}, {"architect", "qa"},
                  {NoOptions}, MaxRuns)
  \/ ArchitectSettles(TextOutcomes)

SpecInput == Init /\ [][NextInput]_vars

\* request texts assembled from fragments: keywords split over two
\* fragments, in either case, broken by a blank or by a control character
Frags ==
  { <<"k","a","n">>, <<"b","a","n">>, <<"K","A","N">>,
    <<"t","o">>, <<"d","o">>, <<"D","O">>,
    <<"l","o","g">>, <<"i","n">>,
    <<"c","a","l","c","u">>, <<"l","a","t","o","r">>,
    <<" ">>, <<"\\x07">> }

RECURSIVE Concats(_)
Concats(n) ==
  IF n = 0 THEN {Empty}
  ELSE Concats(n - 1) \cup {t \o f : t \in Concats(n - 1), f \in Frags}

\* the texts of at most MaxFrags fragments that the chat form submits
TemplateTexts == {t \in Concats(MaxFrags) : trim(t) # Empty}

\* one submission to the developer, of any assembled text with any options
NextTemplate ==
  \/ handleSubmit(TemplateTexts, {"developer"}, AgentOptions, 1)
  \/ InlineDeveloperSettles(JsonOutcomes)
  \/ DeveloperSettles(JsonOutcomes)
  \/ CriticSettles(TextOutcomes)

SpecTemplate == Init /\ [][NextTemplate]_vars

(* ------------------------------ cleanJson ------------------------------ *)

\* characters of a text at most
MaxText == 4

\* items of the body of a sample object at most
MaxItems == 2

\* String.prototype.indexOf / lastIndexOf of one character, counted from 1
\* (0: not found)
indexOf(text, c) ==
  IF \E i \in DOMAIN text : text[i] = c
  THEN CHOOSE i \in DOMAIN text :
         text[i] = c /\ \A j \in 1..(i - 1) : text[j] # c
  ELSE 0

lastIndexOf(text, c) ==
  IF \E i \in DOMAIN text : text[i] = c
  THEN CHOOSE i \in DOMAIN text :
         text[i] = c /\ \A j \in (i + 1)..Len(text) : text[j] # c
  ELSE 0

\* the for loop of cleanJson from index i on: the index at which it returns,
\* 0 when it runs to the end of the text
RECURSIVE cleanJsonLoop(_, _, _, _, _)
cleanJsonLoop(text, i, stack, inString, escaped) ==
  IF i > Len(text) THEN 0
  ELSE LET char == text[i]
           inStringNow ==
             IF char = "\"" /\ ~escaped THEN ~inString ELSE inString
           stackNow ==
             IF inStringNow THEN stack
             ELSE IF char = "{" THEN stack + 1
             ELSE IF char = "}" THEN stack - 1
             ELSE stack
       IN  IF ~inStringNow /\ char = "}" /\ stackNow = 0 THEN i
           ELSE cleanJsonLoop(text, i + 1, stackNow, inStringNow,
                              char = "\\" /\ ~escaped)

\* a loop that counts every brace, also those inside strings
RECURSIVE braceLoop(_, _, _)
braceLoop(text, i, stack) ==
  IF i > Len(text) THEN 0
  ELSE LET stackNow ==
             IF text[i] = "{" THEN stack + 1
             ELSE IF text[i] = "}" THEN stack - 1
             ELSE stack
       IN  IF text[i] = "}" /\ stackNow = 0 THEN i
           ELSE braceLoop(text, i + 1, stackNow)

\* cleanJson that counts the braces inside strings
cleanJsonCountingStrings(text) ==
  IF text = Empty THEN Empty
  ELSE LET firstBrace == indexOf(text, "{")
           end == braceLoop(text, firstBrace, 0)
           lastBrace == lastIndexOf(text, "}")
       IN  IF firstBrace = 0 THEN text
           ELSE IF end # 0 THEN SubSeq(text, firstBrace, end)
           ELSE IF lastBrace > firstBrace
                THEN SubSeq(text, firstBrace, lastBrace)
           ELSE text

\* cleanJson without the lastIndexOf fallback
cleanJsonNoFallback(text) ==
  IF text = Empty THEN Empty
  ELSE LET firstBrace == indexOf(text, "{")
           end == cleanJsonLoop(text, firstBrace, 0, FALSE, FALSE)
       IN  IF firstBrace = 0 THEN text
           ELSE IF end # 0 THEN SubSeq(text, firstBrace, end)
           ELSE text

cleanJson(text) ==
  IF text = Empty THEN Empty
  ELSE LET firstBrace == indexOf(text, "{")
           end == cleanJsonLoop(text, firstBrace, 0, FALSE, FALSE)
           lastBrace == lastIndexOf(text, "}")
       IN  IF firstBrace = 0 THEN text
           ELSE IF end # 0 THEN SubSeq(text, firstBrace, end)
           ELSE IF lastBrace > firstBrace
                THEN SubSeq(text, firstBrace, lastBrace)
           ELSE text

\* all texts of at most n characters of the set A
RECURSIVE Words(_, _)
Words(A, n) ==
  IF n = 0 THEN {Empty}
  ELSE Words(A, n - 1) \cup {w \o <<c>> : w \in Words(A, n - 1), c \in A}

JsonChars == {"{", "}", "\"", "\\", "a"}

\* what the body of a sample object is made of: a plain character, string
\* literals that hold braces, an escaped quote or an escaped backslash, and
\* nested objects
JsonItems ==
  { <<"a">>,
    <<"\"", "}", "\"">>,
    <<"\"", "{", "\"">>,
    <<"\"", "}", "{", "\"">>,
    <<"\"", "\\", "\"", "}", "\"">>,
    <<"\"", "\\", "\\", "\"">>,
    <<"{", "}">>,
    <<"{", "\"", "}", "\"", "}">> }

RECURSIVE JsonBodies(_)
JsonBodies(n) ==
  IF n = 0 THEN {Empty}
  ELSE JsonBodies(n - 1) \cup {b \o i : b \in JsonBodies(n - 1), i \in JsonItems}

\* sample balanced objects
JsonObjects == {<<"{">> \o b \o <<"}">> : b \in JsonBodies(MaxItems)}

\* text before the object (without an opening brace) and after it
JsonPrefixes == {Empty, <<"a", " ">>, <<"\"">>, <<"\\">>, <<"}">>}

JsonSuffixes == {Empty, <<"a">>, <<"}">>, <<"{">>, <<"\"">>, <<"{", "}">>}

\* the calls of cleanJson looked at: on an object between other text, and
\* on every text of at most MaxText characters
CleanJsonCalls ==
  {CallOf("cleanJson", p \o o \o s, <<p, o, s>>) :
     p \in JsonPrefixes, o \in JsonObjects, s \in JsonSuffixes}
  \cup {CallOf("cleanJson", w, <<>>) : w \in Words(JsonChars, MaxText)}

\* the call returns
applyCleanJson ==
  /\ call.fn = "cleanJson"
  /\ ~call.returned
  /\ call' = [call EXCEPT !.result = cleanJson(call.arg), !.returned = TRUE]
  /\ UNCHANGED <<messages, tasks, requests, isProcessing,
                 pendingDeveloperContext, designerPauseEnabled, designTokens,
                 designLibrary, designBrief, activeFile, activeTab, runs,
                 apiKey, files, ignored, appStateSnapshot, livePreviewDoc,
                 previousPreviewDoc, closureLivePreviewDoc,
                 lastPreviewRun,
                 symbiotic_app_state_data>>

InitCleanJson == InitApp({INITIAL_FILES}) /\ call \in CleanJsonCalls

SpecCleanJson == InitCleanJson /\ [][applyCleanJson]_vars

(* ---------------------------- extractMarkup ---------------------------- *)

\* fragments a component source is assembled from at most
MaxParts == 3

Return == <<"r", "e", "t", "u", "r", "n">>

FragmentOpen == <<"<", ">">>

FragmentClose == <<"<", "/", ">">>

ClassNameAttr == <<"c", "l", "a", "s", "s", "N", "a", "m", "e", "=">>

ClassAttr == <<"c", "l", "a", "s", "s", "=">>

PreOpen == "<pre style=\"padding:16px;font-family:monospace\">"

PreClose == "</pre>"

\* text.startsWith(k, i), counted from 1
startsWithAt(text, i, k) ==
  /\ i >= 1
  /\ i + Len(k) - 1 <= Len(text)
  /\ SubSeq(text, i, i + Len(k) - 1) = k

\* \s* from index i on: the index of the first character that is not white
RECURSIVE skipWhite(_, _)
skipWhite(text, i) ==
  IF i <= Len(text) /\ IsWhite(text[i]) THEN skipWhite(text, i + 1) ELSE i

\* value.replace(/from/g, to)
RECURSIVE replaceAll(_, _, _)
replaceAll(value, from, to) ==
  IF value = Empty THEN Empty
  ELSE IF startsWithAt(value, 1, from)
       THEN to \o replaceAll(SubSeq(value, Len(from) + 1, Len(value)), from, to)
  ELSE <<Head(value)>> \o replaceAll(Tail(value), from, to)

escapeChar(c) ==
  IF c = "&" THEN <<"&", "a", "m", "p", ";">>
  ELSE IF c = "<" THEN <<"&", "l", "t", ";">>
  ELSE IF c = ">" THEN <<"&", "g", "t", ";">>
  ELSE <<c>>

RECURSIVE escapeHtml(_)
escapeHtml(input) ==
  IF input = Empty THEN Empty
  ELSE escapeChar(Head(input)) \o escapeHtml(Tail(input))

Least(S) == CHOOSE i \in S : \A j \in S : i <= j

\* where /return\s*\(([\s\S]*?)\)\s*;?/ can match: the opening parentheses
\* behind a `return` that have a closing parenthesis behind them
returnParenStarts(content) ==
  LET opens == {skipWhite(content, i + Len(Return)) :
                  i \in {k \in DOMAIN content : startsWithAt(content, k, Return)}}
  IN  {o \in opens :
         /\ o <= Len(content)
         /\ content[o] = "("
         /\ \E j \in (o + 1)..Len(content) : content[j] = ")"}

\* content.match(/return\s*\(([\s\S]*?)\)\s*;?/)?.[1], Empty without a match:
\* the text between the parenthesis after the first `return (` and the
\* first closing parenthesis behind it
returnParenGroup(content) ==
  LET starts == returnParenStarts(content)
  IN  IF starts = {} THEN Empty
      ELSE LET open == Least(starts)
               close == Least({j \in (open + 1)..Len(content) : content[j] = ")"})
           IN  SubSeq(content, open + 1, close - 1)

\* content.match(/return\s*<>\s*([\s\S]*?)\s*<\/>/)?.[1], Empty without a match
returnFragmentGroup(content) ==
  LET closes(from) ==
        {e \in (from - 1)..Len(content) :
           startsWithAt(content, skipWhite(content, e + 1), FragmentClose)}
      froms == {skipWhite(content, o + Len(FragmentOpen)) :
                  o \in {skipWhite(content, i + Len(Return)) :
                           i \in {k \in DOMAIN content :
                                    startsWithAt(content, k, Return)}}
                       \cap {o \in DOMAIN content :
                               startsWithAt(content, o, FragmentOpen)}}
      matching == {f \in froms : closes(f) # {}}
  IN  IF matching = {} THEN Empty
      ELSE LET from == Least(matching)
           IN  SubSeq(content, from, Least(closes(from)))

\* the <pre> dump of the source
preOf(content) == <<PreOpen>> \o escapeHtml(content) \o <<PreClose>>

normalize(content, value) ==
  Or(trim(replaceAll(value, ClassNameAttr, ClassAttr)), preOf(content))

\* extractMarkup that returns the trimmed slice also when it is empty
extractMarkupNoFallback(content) ==
  LET jsxStart == indexOf(content, "<")
      jsxEnd == lastIndexOf(content, ">")
      plain(value) == trim(replaceAll(value, ClassNameAttr, ClassAttr))
  IN  IF returnParenGroup(content) # Empty
      THEN plain(returnParenGroup(content))
      ELSE IF returnFragmentGroup(content) # Empty
      THEN plain(returnFragmentGroup(content))
      ELSE IF jsxStart # 0 /\ jsxEnd > jsxStart
      THEN plain(SubSeq(content, jsxStart, jsxEnd))
      ELSE preOf(content)

extractMarkup(content) ==
  LET jsxStart == indexOf(content, "<")
      jsxEnd == lastIndexOf(content, ">")
  IN  IF returnParenGroup(content) # Empty
      THEN normalize(content, returnParenGroup(content))
      ELSE IF returnFragmentGroup(content) # Empty
      THEN normalize(content, returnFragmentGroup(content))
      ELSE IF jsxStart # 0 /\ jsxEnd > jsxStart
      THEN normalize(content, SubSeq(content, jsxStart, jsxEnd))
      ELSE preOf(content)

\* what a sample source is assembled from
SourceFrags ==
  { Return, <<" ">>, <<"(">>, <<")">>, <<";">>, FragmentOpen, FragmentClose,
    <<"<", "b", ">">>, ClassNameAttr, <<"x">>, <<"&">> }

RECURSIVE Sources(_)
Sources(n) ==
  IF n = 0 THEN {Empty}
  ELSE Sources(n - 1) \cup {s \o f : s \in Sources(n - 1), f \in SourceFrags}

\* sample markup blocks: the element of a className, one between blanks, one
\* with a call in an event handler, one with an arrow function
Markups ==
  { <<"<", "b", " ", "c", "l", "a", "s", "s", "N", "a", "m", "e", "=", "\"", "x", "\"", ">", "Y", "<", "/", "b", ">">>,
    <<" ", "<", "b", ">", "Y", "<", "/", "b", ">", " ">>,
    <<"<", "b", " ", "o", "n", "C", "l", "i", "c", "k", "=", "{", "g", "o", "(", ")", "}", ">", "Y", "<", "/", "b", ">">>,
    <<"<", "b", " ", "o", "n", "C", "l", "i", "c", "k", "=", "{", "(", ")", " ", "=", ">", " ", "g", "o", "(", "1", ")", "}", ">", "Y", "<", "/", "b", ">">> }

\* the calls of extractMarkup looked at: on `return (M)` between other text,
\* and on every source of at most MaxParts fragments
ExtractMarkupCalls ==
  {CallOf("extractMarkup", p \o Return \o w \o <<"(">> \o m \o e \o s,
          <<p, m, s>>) :
     p \in {Empty, <<"x", ";", " ">>}, w \in {Empty, <<" ">>},
     m \in Markups \cup {Empty, <<" ">>},
     e \in {<<")">>, <<")", ";">>},
     s \in {Empty, <<" ", "}">>, <<"<", "b", ">">>}}
  \cup {CallOf("extractMarkup", c, <<>>) : c \in Sources(MaxParts)}

\* the call returns
applyExtractMarkup ==
  /\ call.fn = "extractMarkup"
  /\ ~call.returned
  /\ call' = [call EXCEPT !.result = extractMarkup(call.arg), !.returned = TRUE]
  /\ UNCHANGED <<messages, tasks, requests, isProcessing,
                 pendingDeveloperContext, designerPauseEnabled, designTokens,
                 designLibrary, designBrief, activeFile, activeTab, runs,
                 apiKey, files, ignored, appStateSnapshot, livePreviewDoc,
                 previousPreviewDoc, closureLivePreviewDoc,
                 lastPreviewRun,
                 symbiotic_app_state_data>>

InitExtractMarkup == InitApp({INITIAL_FILES}) /\ call \in ExtractMarkupCalls

SpecExtractMarkup == InitExtractMarkup /\ [][applyExtractMarkup]_vars

(* ------------------------------ preview -------------------------------- *)

ConstWord == <<"c", "o", "n", "s", "t">>

UseStateWord == <<"u", "s", "e", "S", "t", "a", "t", "e">>

\* the characters of [\w$]
WordChars ==
  {LowerChars[k] : k \in 1..26} \cup {UpperChars[k] : k \in 1..26}
  \cup {"0", "1", "2", "3", "4", "5", "6", "7", "8", "9", "_", "$"}

\* the quotes of ['"`]; \x60 stands for the backtick
QuoteChars == {"'", "\"", "\\x60"}

\* the first index from i on whose character is not in S (Len + 1 when all are)
RECURSIVE skipChars(_, _, _)
skipChars(text, i, S) ==
  IF i <= Len(text) /\ text[i] \in S THEN skipChars(text, i + 1, S) ELSE i

\* the first index from i on whose character is c, 0 when there is none
indexFrom(text, i, c) ==
  IF \E j \in i..Len(text) : text[j] = c
  THEN Least({j \in i..Len(text) : text[j] = c})
  ELSE 0

charAt(text, i) == IF i \in DOMAIN text THEN text[i] ELSE ""

\* one match of
\*   /const\s*\[\s*([\w$]+)[^\]]*\]\s*=\s*useState(?:<[^>]+>)?\(([^)]+)\)/
\* that starts at index i: <<key, value, index of the closing parenthesis>>,
\* <<>> when the pattern does not match there
useStateAt(content, i) ==
  LET bracket == skipWhite(content, i + Len(ConstWord))
      keyStart == skipWhite(content, bracket + 1)
      keyEnd == skipChars(content, keyStart, WordChars)
      closing == indexFrom(content, keyEnd, "]")
      equals == skipWhite(content, closing + 1)
      hook == skipWhite(content, equals + 1)
      after == hook + Len(UseStateWord)
      generic == indexFrom(content, after + 1, ">")
      paren == IF charAt(content, after) = "<" /\ generic > after + 1
               THEN generic + 1 ELSE after
      close == indexFrom(content, paren + 1, ")")
  IN  IF /\ startsWithAt(content, i, ConstWord)
         /\ charAt(content, bracket) = "["
         /\ keyEnd > keyStart
         /\ closing # 0
         /\ charAt(content, equals) = "="
         /\ startsWithAt(content, hook, UseStateWord)
         /\ charAt(content, paren) = "("
         /\ close > paren + 1
      THEN <<SubSeq(content, keyStart, keyEnd - 1),
             SubSeq(content, paren + 1, close - 1), close>>
      ELSE <<>>

\* value.trim().replace(/^['"`]|['"`]$/g, '')
unquote(value) ==
  LET v == trim(value)
      w == IF v # Empty /\ Head(v) \in QuoteChars THEN Tail(v) ELSE v
  IN  IF w # Empty /\ w[Len(w)] \in QuoteChars
      THEN SubSeq(w, 1, Len(w) - 1) ELSE w

\* snapshot[key] = value: an object keeps the order in which its keys were
\* first set
setKey(snapshot, key, value) ==
  IF \E k \in DOMAIN snapshot : snapshot[k].key = key
  THEN [k \in DOMAIN snapshot |->
          IF snapshot[k].key = key THEN [key |-> key, value |-> value]
          ELSE snapshot[k]]
  ELSE Append(snapshot, [key |-> key, value |-> value])

\* content.matchAll(...) from index i on, folded into the snapshot
RECURSIVE analyzeFrom(_, _, _)
analyzeFrom(content, i, snapshot) ==
  IF i > Len(content) THEN snapshot
  ELSE LET m == useStateAt(content, i)
       IN  IF m = <<>> THEN analyzeFrom(content, i + 1, snapshot)
           ELSE analyzeFrom(content, m[3] + 1,
                            setKey(snapshot, m[1], unquote(m[2])))

analyzeAppState(content) == analyzeFrom(content, 1, <<>>)

\* JSON.stringify of a string
RECURSIVE jsonEscape(_)
jsonEscape(s) ==
  IF s = Empty THEN Empty
  ELSE (IF Head(s) \in {"\"", "\\"} THEN <<"\\", Head(s)>> ELSE <<Head(s)>>)
       \o jsonEscape(Tail(s))

jsonString(s) == <<"\"">> \o jsonEscape(s) \o <<"\"">>

RECURSIVE jsonMembers(_)
jsonMembers(snapshot) ==
  IF snapshot = <<>> THEN Empty
  ELSE jsonString(Head(snapshot).key) \o <<":">> \o jsonString(Head(snapshot).value)
       \o (IF Tail(snapshot) = <<>> THEN Empty ELSE <<",">>)
       \o jsonMembers(Tail(snapshot))

\* JSON.stringify of a snapshot
stringify(snapshot) == <<"{">> \o jsonMembers(snapshot) \o <<"}">>

\* the pieces of the template literal of buildPreviewDocument around its
\* three substitutions
DocHead == "<!doctype html>...<body><div id=\"app\">"

DocState == "</div><div class=\"__symbiotic_state\"><strong>Persisted state</strong><pre>"

DocScript == "</pre></div><script>try { const saved = localStorage.getItem('symbiotic_app_state_data'); const fallback = "

DocTail == "; const next = saved ? JSON.parse(saved) : fallback; ... </script></body></html>"

\* buildPreviewDocument that embeds the snapshot of an empty object
buildPreviewDocumentNoState(file, snapshot) ==
  IF ~file.present \/ file.content = Empty THEN Empty
  ELSE <<DocHead>> \o extractMarkup(file.content)
       \o <<DocState>> \o escapeHtml(stringify(<<>>))
       \o <<DocScript>> \o stringify(<<>>) \o <<DocTail>>

buildPreviewDocument(file, snapshot) ==
  IF ~file.present \/ file.content = Empty THEN Empty
  ELSE <<DocHead>> \o extractMarkup(file.content)
       \o <<DocState>> \o escapeHtml(stringify(snapshot))
       \o <<DocScript>> \o stringify(snapshot) \o <<DocTail>>

\* sample contents typed into the editor
StateOne == <<"c", "o", "n", "s", "t", " ", "[", "n", ",", " ", "s", "e", "t", "N", "]", " ", "=", " ", "u", "s", "e", "S", "t", "a", "t", "e", "(", "'", "a", "'", ")", ";">>

StateTwo == <<"c", "o", "n", "s", "t", "[", "m", "]", "=", "u", "s", "e", "S", "t", "a", "t", "e", "<", "n", "u", "m", "b", "e", "r", ">", "(", "2", ")", ";">>

StateOneAgain == <<"c", "o", "n", "s", "t", " ", "[", "n", "]", " ", "=", " ", "u", "s", "e", "S", "t", "a", "t", "e", "(", "\"", "b", "\"", ")", ";">>

MarkupOne == <<"r", "e", "t", "u", "r", "n", "(", "<", "b", ">", "Y", "<", "/", "b", ">", ")">>

EditorContents ==
  { Empty, MarkupOne, StateOne \o MarkupOne, StateOne \o StateTwo \o MarkupOne,
    StateOne \o StateOneAgain }

\* the file nodes of a list of nodes and of the children of its folders
FileNodes(nodes) ==
  {nodes[i] : i \in {k \in DOMAIN nodes : nodes[k].type = "file"}}
  \cup UNION {{nodes[i].children[j] :
                 j \in {k \in DOMAIN nodes[i].children :
                          nodes[i].children[k].type = "file"}} :
              i \in {k \in DOMAIN nodes : nodes[k].hasChildren}}

\* what the steps of the editor and the preview leave alone
UNCHANGED_Runs ==
  UNCHANGED <<messages, tasks, requests, isProcessing, pendingDeveloperContext,
              designerPauseEnabled, designTokens, designLibrary, designBrief,
              activeTab, runs, apiKey, ignored, symbiotic_app_state_data, call>>

\* FileTreeItem: a click on a file node calls setActiveFile(node)
selectFile(Names) ==
  \E node \in FileNodes(files) :
    /\ node.name \in Names
    /\ activeFile' = [present |-> TRUE, name |-> node.name, content |-> node.content]
    /\ closureLivePreviewDoc' =
         IF activeFile' # activeFile THEN livePreviewDoc ELSE closureLivePreviewDoc
    /\ UNCHANGED <<files, appStateSnapshot, livePreviewDoc, previousPreviewDoc,
                   lastPreviewRun>>
    /\ UNCHANGED_Runs

\* the close button of the editor tab: setActiveFile(null)
closeFile ==
  /\ activeFile.present
  /\ activeFile' = NoFile
  /\ closureLivePreviewDoc' = livePreviewDoc
  /\ UNCHANGED <<files, appStateSnapshot, livePreviewDoc, previousPreviewDoc,
                   lastPreviewRun>>
  /\ UNCHANGED_Runs

\* updateFileContent(newContent), the onChange of the editor
updateFileContent(Contents) ==
  \E newContent \in Contents :
    /\ activeFile.present
    /\ newContent # activeFile.content
    /\ LET updatedFile == FileOf(activeFile.name, newContent)
       IN  files' =
             [i \in DOMAIN files |->
                IF files[i].hasChildren
                THEN [files[i] EXCEPT !.children =
                        [j \in DOMAIN @ |->
                           IF @[j].name = activeFile.name THEN updatedFile
                           ELSE @[j]]]
                ELSE IF files[i].name = activeFile.name THEN updatedFile
                ELSE files[i]]
    /\ activeFile' = [activeFile EXCEPT !.content = newContent]
    /\ closureLivePreviewDoc' = livePreviewDoc
    /\ UNCHANGED <<appStateSnapshot, livePreviewDoc, previousPreviewDoc,
                   lastPreviewRun>>
    /\ UNCHANGED_Runs

\* refreshes of the preview in one behaviour
MaxRefreshes == 3

\* lastPreviewRun is the time of the last refresh, counted in refreshes
\* (0: null)

\* refreshLivePreview(activeFile): the Run Preview button, the onRunPreview
\* of the Preview pane and the timer of the effect of lines 518-522
refreshLivePreview ==
  LET target == activeFile
      snapshot == analyzeAppState(target.content)
      doc == buildPreviewDocument(target, snapshot)
  IN  /\ IF ~target.present
         THEN UNCHANGED <<appStateSnapshot, livePreviewDoc, previousPreviewDoc,
                          lastPreviewRun>>
         ELSE /\ lastPreviewRun < MaxRefreshes
              /\ appStateSnapshot' = snapshot
              /\ previousPreviewDoc' = DocOrNull(closureLivePreviewDoc)
              /\ livePreviewDoc' = doc
              /\ lastPreviewRun' = lastPreviewRun + 1
      /\ UNCHANGED <<files, activeFile, closureLivePreviewDoc>>
      /\ UNCHANGED_Runs

\* editing one file and previewing it
NextPreview ==
  \/ selectFile({<<"App.tsx">>})
  \/ closeFile
  \/ updateFileContent(EditorContents)
  \/ refreshLivePreview

SpecPreview == Init /\ [][NextPreview]_vars

\* submissions to the developer, and the refreshes of the preview that the
\* debounce effect and the Run Preview button make of the file a run
\* activated
NextCritic ==
  \/ handleSubmit({AppText, TodoText}, {"developer"}, {NoOptions}, MaxRuns)
  \/ InlineDeveloperSettles({"json"})
  \/ DeveloperSettles({"json", "garbage"})
  \/ CriticSettles({"text"})
  \/ refreshLivePreview

SpecCritic == Init /\ [][NextCritic]_vars

(* ------------------ the script of the preview document ----------------- *)
(* The iframe of the Preview pane renders livePreviewDoc.  The script of    *)
(* the document runs once when it is loaded and then listens to message     *)
(* events.  symbiotic_app_state_data is the localStorage item of that name. *)
(* A text in it was written by JSON.stringify, so JSON.parse followed by    *)
(* JSON.stringify gives it back.  call records the last load or message     *)
(* event of the document (history, not data).                               *)

\* window.location.origin of the preview document
OwnOrigin == "https://app.example"

\* event.origin of sample messages: the document's origin, another one, none
Origins == {OwnOrigin, "https://other.example", ""}

MessageTypes == {"symbiotic_state_update", "resize"}

\* event.data.payload of sample messages
Payloads == { <<>>, <<[key |-> <<"n">>, value |-> <<"z">>]>> }

\* the text of `${stateJson}` in the script of the document
fallbackOf(doc) ==
  SubSeq(doc, indexOf(doc, DocScript) + 1, indexOf(doc, DocTail) - 1)

\* the script of the document up to addEventListener
loadPreviewDocument ==
  /\ livePreviewDoc # Empty
  /\ LET saved == symbiotic_app_state_data
         next == IF saved.present /\ saved.value # Empty THEN saved.value
                 ELSE fallbackOf(livePreviewDoc)
     IN  symbiotic_app_state_data' = [present |-> TRUE, value |-> next]
  /\ call' = [fn |-> "load", arg |-> Empty, parts |-> <<>>, result |-> Empty,
              returned |-> TRUE]
  /\ UNCHANGED <<messages, tasks, requests, isProcessing,
                 pendingDeveloperContext, designerPauseEnabled, designTokens,
                 designLibrary, designBrief, activeFile, activeTab, runs,
                 apiKey, files, ignored, appStateSnapshot, livePreviewDoc,
                 previousPreviewDoc, closureLivePreviewDoc,
                 lastPreviewRun>>

\* the message listener of the document: the item after the event
onMessage(origin, type, payload) ==
  IF origin # "" /\ origin # OwnOrigin THEN symbiotic_app_state_data
  ELSE IF type = "symbiotic_state_update"
       THEN [present |-> TRUE, value |-> stringify(payload)]
  ELSE symbiotic_app_state_data

\* a message event is delivered to a loaded document
receiveMessage ==
  \E origin \in Origins, type \in MessageTypes, payload \in Payloads :
    /\ livePreviewDoc # Empty
    /\ symbiotic_app_state_data.present
    /\ symbiotic_app_state_data' = onMessage(origin, type, payload)
    /\ call' = [fn |-> "message", arg |-> stringify(payload),
                parts |-> <<origin, type>>, result |-> Empty,
                returned |-> TRUE]
    /\ UNCHANGED <<messages, tasks, requests, isProcessing,
                   pendingDeveloperContext, designerPauseEnabled, designTokens,
                   designLibrary, designBrief, activeFile, activeTab, runs,
                   apiKey, files, ignored, appStateSnapshot, livePreviewDoc,
                   previousPreviewDoc, closureLivePreviewDoc,
                 lastPreviewRun>>

\* a previewed file and the messages its document receives
NextDocument ==
  \/ selectFile({<<"App.tsx">>})
  \/ updateFileContent(EditorContents)
  \/ refreshLivePreview
  \/ loadPreviewDocument
  \/ receiveMessage

SpecDocument == Init /\ [][NextDocument]_vars

(* ------------------------ the credential (build) ----------------------- *)
(* vite.config.ts resolves the key once per build from the environment and  *)
(* defines import.meta.env.RESOLVED_GEMINI_API_KEY, which handleSendMessage *)
(* and resumeDeveloperFromDesign read as apiKey.                            *)

\* the precedence of the environment variables
GEMINI_KEY_ENV_ORDER == <<"VITE_GEMINI_API_KEY", "GEMINI_API_KEY", "API_KEY">>

\* env[key] === undefined
Unset == [set |-> FALSE, value |-> Empty]

ValueOf(text) == [set |-> TRUE, value |-> text]

\* a key whose SHA-256 is in BLOCKED_GEMINI_KEY_HASHES
LeakedKey == <<"l", "e", "a", "k">>

BlockedHash == "c83922dee0374346dc5f5f7a16de494ad136470a05658dcb72a4bc4b279503fb"

\* createHash('sha256').update(text).digest('hex'): the listed hash for the
\* leaked key, another one for every other text
sha256(text) == IF text = LeakedKey THEN <<BlockedHash>> ELSE <<"sha256">> \o text

BLOCKED_GEMINI_KEY_HASHES == { <<BlockedHash>> }

sanitizeGeminiKey(rawKey) ==
  LET sanitized == IF rawKey.set THEN trim(rawKey.value) ELSE Empty
  IN  IF sanitized = Empty THEN Empty
      ELSE IF sha256(sanitized) \in BLOCKED_GEMINI_KEY_HASHES THEN Empty
      ELSE sanitized

\* the for loop of resolveGeminiKey from the i-th name on
RECURSIVE resolveFrom(_, _)
resolveFrom(env, i) ==
  IF i > Len(GEMINI_KEY_ENV_ORDER) THEN Empty
  ELSE LET candidate == sanitizeGeminiKey(env[GEMINI_KEY_ENV_ORDER[i]])
       IN  IF candidate # Empty THEN candidate ELSE resolveFrom(env, i + 1)

\* a resolution that sanitizes the first value that is set and not empty
resolveFirstTruthy(env) ==
  LET truthy == {i \in DOMAIN GEMINI_KEY_ENV_ORDER :
                   /\ env[GEMINI_KEY_ENV_ORDER[i]].set
                   /\ env[GEMINI_KEY_ENV_ORDER[i]].value # Empty}
  IN  IF truthy = {} THEN Empty
      ELSE sanitizeGeminiKey(env[GEMINI_KEY_ENV_ORDER[Least(truthy)]])

resolveGeminiKey(env) == resolveFrom(env, 1)

\* sample values of an environment variable
EnvValues ==
  { Unset, ValueOf(Empty), ValueOf(<<" ">>), ValueOf(<<" ", "k", "1", "\n">>),
    ValueOf(<<"k", "2">>), ValueOf(LeakedKey), ValueOf(<<" ">> \o LeakedKey) }

Environments ==
  [{GEMINI_KEY_ENV_ORDER[i] : i \in DOMAIN GEMINI_KEY_ENV_ORDER} -> EnvValues]

ResolveCalls == {CallOf("resolveGeminiKey", env, <<>>) : env \in Environments}

\* defineConfig: the key is resolved and defined for the bundle
defineConfig ==
  /\ call.fn = "resolveGeminiKey"
  /\ ~call.returned
  /\ call' = [call EXCEPT !.result = resolveGeminiKey(call.arg),
                          !.returned = TRUE]
  /\ apiKey' = resolveGeminiKey(call.arg)
  /\ UNCHANGED <<messages, tasks, requests, isProcessing,
                 pendingDeveloperContext, designerPauseEnabled, designTokens,
                 designLibrary, designBrief, activeFile, activeTab, runs,
                 files, ignored, appStateSnapshot, livePreviewDoc,
                 previousPreviewDoc, closureLivePreviewDoc,
                 lastPreviewRun,
                 symbiotic_app_state_data>>

InitConfig == InitApp({INITIAL_FILES}) /\ call \in ResolveCalls

SpecConfig == InitConfig /\ [][defineConfig]_vars

(* ------------------------- what a run has done ------------------------- *)

Roles == {"designer", "architect", "developer", "critic"}

TasksOf(r, role) == {i \in DOMAIN tasks[r] : tasks[r][i].assignedTo = role}

RequestsOf(r, role) == {i \in DOMAIN requests[r] : requests[r][i].role = role}

ReturnedOf(r, role) ==
  {i \in RequestsOf(r, role) : requests[r][i].state = "returned"}

MessagesOf(r, role) ==
  {i \in DOMAIN messages[r] :
     messages[r][i].sender = "agent" /\ messages[r][i].agentRole = role}

TaskRoles(r) == {tasks[r][i].assignedTo : i \in DOMAIN tasks[r]}

RequestRoles(r) == {requests[r][i].role : i \in DOMAIN requests[r]}

NoCallThrew(r) == \A i \in DOMAIN requests[r] : requests[r][i].state # "threw"

EndedOk(r) == runs[r].pc = "done" /\ ~runs[r].threw

Submitted(r, target) == runs[r].kind = "submit" /\ runs[r].target = target

(* ------------------------------- C1 ------------------------------------ *)

StageOrder == <<"designer", "architect", "developer", "critic">>

\* C1: in a team run submitted with pausing disabled in which no call throws,
\* the tasks are created in the order designer, architect, developer, critic,
\* one per role, and a stage's task is created only after the previous
\* stage's task is completed and its chat message appended.
C1_TeamStagesInOrder ==
  \A r \in RunIds :
    (Submitted(r, "team") /\ ~runs[r].pauseEnabled /\ NoCallThrew(r)) =>
      \A i \in DOMAIN tasks[r] :
        /\ i <= Len(StageOrder)
        /\ tasks[r][i].assignedTo = StageOrder[i]
        /\ i > 1 => /\ tasks[r][i - 1].status = "completed"
                    /\ MessagesOf(r, StageOrder[i - 1]) # {}

(* ------------------------------- C2 ------------------------------------ *)

PausedTeamRun(r) == Submitted(r, "team") /\ runs[r].pauseEnabled

C3_HandoffConsumedOnce ==
  \A r \in RunIds :
    runs[r].kind = "resume" =>
      /\ runs[r].params.userRequest = runs[r].pending.userRequest
      /\ runs[r].params.architectPlan = runs[r].pending.architectPlan
      /\ runs[r].params.options = runs[r].pending.options
      /\ \A q \in RunIds :
           (q # r /\ runs[q].kind = "resume") =>
             runs[q].pending.origin # runs[r].pending.origin

(* ------------------------------- C4 ------------------------------------ *)

\* C4: every stage that executes issues exactly one generation request (a
\* developer stage under template short-circuit none), so a run issues at
\* most one request per role and exactly one developer request when its
\* developer stage is not short-circuited.
C4_OneRequestPerStage ==
  \A r \in RunIds :
    /\ \A role \in Roles \ {"developer"} :
         Cardinality(RequestsOf(r, role)) = Cardinality(TasksOf(r, role))
    /\ Cardinality(RequestsOf(r, "developer")) =
         IF TasksOf(r, "developer") = {}
              \/ useTemplate(runs[r].templateKey, runs[r].options)
         THEN 0 ELSE 1

(* ------------------------------- C5 ------------------------------------ *)

\* C5: when a run in which no generation call failed has ended, every task
\* it created is completed.
C5_NoTaskLeftActive ==
  \A r \in RunIds :
    EndedOk(r) => \A i \in DOMAIN tasks[r] : tasks[r][i].status = "completed"

(* ------------------------------- C6 ------------------------------------ *)

\* C6: every returned generation call of a stage has appended one agent
\* message of the stage's role: per run and role there are as many agent
\* messages as returned calls (a short-circuited developer stage adds its
\* message without a call).
C6_OneMessagePerReturnedCall ==
  \A r \in RunIds :
    /\ \A role \in Roles \ {"developer"} :
         Cardinality(MessagesOf(r, role)) = Cardinality(ReturnedOf(r, role))
    /\ Cardinality(MessagesOf(r, "developer")) >=
         Cardinality(ReturnedOf(r, "developer"))

(* ------------------------------- C7 ------------------------------------ *)

\* C7: a run submitted to the architect creates at most one task and one
\* request, both of the architect (exactly one of each when it has ended
\* without error); a run submitted to the developer creates only developer
\* and critic tasks and requests, creates the critic task only after a
\* developer message and a completed developer task, and has run the critic
\* when it has ended without error.  Neither creates a designer task or
\* issues a designer request.
C7_SoloTargets ==
  \A r \in RunIds :
    /\ Submitted(r, "architect") =>
         /\ TaskRoles(r) \subseteq {"architect"}
         /\ RequestRoles(r) \subseteq {"architect"}
         /\ Len(tasks[r]) <= 1
         /\ Len(requests[r]) <= 1
         /\ EndedOk(r) =>
              /\ Len(tasks[r]) = 1 /\ Len(requests[r]) = 1
              /\ tasks[r][1].status = "completed"
    /\ Submitted(r, "developer") =>
         /\ TaskRoles(r) \subseteq {"developer", "critic"}
         /\ RequestRoles(r) \subseteq {"developer", "critic"}
         /\ TasksOf(r, "critic") # {} =>
              /\ MessagesOf(r, "developer") # {}
              /\ \E i \in TasksOf(r, "developer") :
                   tasks[r][i].status = "completed"
         /\ EndedOk(r) =>
              /\ Cardinality(TasksOf(r, "critic")) = 1
              /\ Cardinality(RequestsOf(r, "critic")) = 1

C7_Witness ==
  \E r, q \in RunIds :
    /\ Submitted(r, "architect") /\ EndedOk(r) /\ Len(tasks[r]) = 1
    /\ Submitted(q, "developer") /\ EndedOk(q) /\ TasksOf(q, "critic") # {}

(* ------------------------------- C8 ------------------------------------ *)

\* C8: a run submitted to the designer creates only a designer task and
\* issues only a designer request, and when its designer call returns the run
\* ends in that step with the hand-off of the run stored and isProcessing
\* false, whatever the pause toggle was when it was submitted.
C8_DesignerAlwaysHandsOff ==
  [][\A r \in RunIds :
       (runs'[r].kind = "submit" /\ runs'[r].target = "designer") =>
         /\ \A i \in DOMAIN tasks'[r] : tasks'[r][i].assignedTo = "designer"
         /\ \A i \in DOMAIN requests'[r] : requests'[r][i].role = "designer"
         /\ (runs[r].pc = "await_designer" /\ requests'[r][1].state = "returned") =>
              /\ runs'[r].pc = "done"
              /\ pendingDeveloperContext'.present
              /\ pendingDeveloperContext'.origin = r
              /\ pendingDeveloperContext'.userRequest = runs'[r].userRequest
              /\ ~isProcessing'
    ]_vars

C8_Witness ==
  \E r, q \in RunIds :
    /\ Submitted(r, "designer") /\ EndedOk(r) /\ runs[r].pauseEnabled
    /\ Submitted(q, "designer") /\ EndedOk(q) /\ ~runs[q].pauseEnabled
    /\ pendingDeveloperContext.present
    /\ pendingDeveloperContext.origin = q
    /\ ~isProcessing

(* ------------------------------- C9 ------------------------------------ *)

Keywords == {KwKanban, KwCalculator, KwTodo, KwLogin}

SameLetter(a, b) ==
  a = b \/ \E n \in 1..26 : {a, b} = {UpperChars[n], LowerChars[n]}

\* keyword k occurs in text, letters compared without regard to case
Occurs(k, text) ==
  \E i \in 1..(Len(text) - Len(k) + 1) :
    \A j \in 1..Len(k) : SameLetter(text[i + j - 1], k[j])

TemplateOf(k) ==
  IF k = KwKanban THEN TEMPLATES.kanban
  ELSE IF k = KwCalculator THEN TEMPLATES.calculator
  ELSE IF k = KwTodo THEN TEMPLATES.todo
  ELSE TEMPLATES.login

CannedFiles(text) ==
  {[present |-> TRUE, name |-> TemplateOf(k).filename,
    content |-> TemplateOf(k).content] : k \in {q \in Keywords : Occurs(q, text)}}

ShortCircuit(r) ==
  /\ \E k \in Keywords : Occurs(k, runs[r].userRequest)
  /\ ~runs[r].options.useThinking
  /\ ~runs[r].options.useSearch

\* C9: a developer stage awaits an external call only when the request has no
\* keyword or an option is set, and a developer stage that has produced its
\* file has issued no developer request, produced the canned file of a
\* keyword of the request and appended the generic message "Built
\* component." exactly when the request contains a keyword (in any case) and
\* neither option is set.
C9_TemplateIff ==
  \A r \in RunIds :
    /\ runs[r].pc \in {"await_inline_developer", "await_developer"} =>
         ~ShortCircuit(r)
    /\ runs[r].newFile.present =>
         /\ ShortCircuit(r) <=> RequestsOf(r, "developer") = {}
         /\ ShortCircuit(r) <=>
              runs[r].newFile \in CannedFiles(runs[r].userRequest)
         /\ ShortCircuit(r) <=>
              \E i \in MessagesOf(r, "developer") :
                messages[r][i].text = <<"Built component.">>
         /\ Cardinality(MessagesOf(r, "developer")) = 1

C9_Witness ==
  \E r \in RunIds :
    /\ runs[r].newFile.present
    /\ ShortCircuit(r)
    /\ runs[r].userRequest # toLowerCase(runs[r].userRequest)
    /\ RequestsOf(r, "developer") = {}

(* ------------------------------- C10 ----------------------------------- *)

\* C10: a run with a keyword request and default options that has gone
\* through the developer stage and ended without error has issued no
\* developer request, has exactly one developer task, completed, and exactly
\* one critic request.
C10_TemplateRun ==
  \A r \in RunIds :
    (EndedOk(r) /\ runs[r].newFile.present /\ ShortCircuit(r)) =>
      /\ RequestsOf(r, "developer") = {}
      /\ Cardinality(TasksOf(r, "developer")) = 1
      /\ \A i \in TasksOf(r, "developer") : tasks[r][i].status = "completed"
      /\ Cardinality(RequestsOf(r, "critic")) = 1

(* ------------------------------- C11 ----------------------------------- *)

\* C11: a run whose developer call returned text that does not parse has
\* created the file Component.tsx with the placeholder content, appended a
\* developer message with the explanatory text, left no developer task
\* active, created the critic task and, when none of its calls threw,
\* appended no system message.
C11_ParseFailureContained ==
  \A r \in RunIds :
    (\E i \in RequestsOf(r, "developer") : requests[r][i].outcome = "garbage") =>
      /\ runs[r].newFile.present
      /\ runs[r].newFile.content = ExtractionError
      /\ \E i \in MessagesOf(r, "developer") : messages[r][i].text = FormattingError
      /\ \A i \in TasksOf(r, "developer") : tasks[r][i].status = "completed"
      /\ TasksOf(r, "critic") # {}
      /\ NoCallThrew(r) =>
           \A i \in DOMAIN messages[r] : messages[r][i].sender # "system"

(* ------------------------------- C12 ----------------------------------- *)

LastRequest(r) == requests[r][Len(requests[r])]

\* the step in which the pending call of run r throws
Throws(r) ==
  /\ InFlight(r)
  /\ requests'[r][Len(requests[r])].state = "threw"

\* C12: the step in which a call of a submitted run throws ends the run,
\* creates no task, issues no request, leaves every task and message of the
\* run as it was and appends exactly one message, a system message; and a
\* run that has ended creates no task, issues no request and appends no
\* message any more.
C12_ThrowAbortsRun ==
  [][\A r \in RunIds :
       /\ (runs[r].kind = "submit" /\ Throws(r)) =>
            /\ runs'[r].pc = "done"
            /\ tasks'[r] = tasks[r]
            /\ Len(requests'[r]) = Len(requests[r])
            /\ Len(messages'[r]) = Len(messages[r]) + 1
            /\ SubSeq(messages'[r], 1, Len(messages[r])) = messages[r]
            /\ messages'[r][Len(messages'[r])].sender = "system"
       /\ (runs[r].kind = "submit" /\ runs[r].pc = "done") =>
            /\ tasks'[r] = tasks[r]
            /\ requests'[r] = requests[r]
            /\ messages'[r] = messages[r]
    ]_vars

C12_Witness ==
  \E r \in RunIds :
    /\ Submitted(r, "team")
    /\ runs[r].pc = "done"
    /\ LastRequest(r).state = "threw"
    /\ LastRequest(r).role = "architect"
    /\ tasks[r][1].status = "completed"
    /\ MessagesOf(r, "designer") # {}
    /\ Cardinality({i \in DOMAIN messages[r] : messages[r][i].sender = "system"}) = 1

(* ------------------------------- C13 ----------------------------------- *)

SystemMessages(r) ==
  {i \in DOMAIN messages[r] : messages[r][i].sender = "system"}

\* C13: a resumed run one of whose calls threw has ended with exactly one
\* system message appended for it.
C13_ResumeThrowReported ==
  \A r \in RunIds :
    (runs[r].kind = "resume" /\ runs[r].pc = "done" /\ runs[r].threw) =>
      Cardinality(SystemMessages(r)) = 1

(* ------------------------------- C14 ----------------------------------- *)

\* C14: when every generation call eventually settles, a run that is in
\* flight leads to a state in which it has ended and isProcessing is false.
C14_ReturnsToIdle ==
  \A r \in RunIds : InFlight(r) ~> (runs[r].pc = "done" /\ ~isProcessing)

(* ------------------------------- C15 ----------------------------------- *)

\* C15: a run that has ended, successfully or by an error, has no task in
\* status active, and the task of a stage whose call threw is failed.
C15_ThrownStageFails ==
  \A r \in RunIds :
    runs[r].pc = "done" =>
      /\ \A i \in DOMAIN tasks[r] : tasks[r][i].status # "active"
      /\ runs[r].threw => tasks[r][Len(tasks[r])].status = "failed"

(* ------------------------------- C16 ----------------------------------- *)

\* C16: at most one run is in flight, and isProcessing is true while a run
\* is in flight.
C16_OneSequenceInFlight ==
  /\ Cardinality({r \in RunIds : InFlight(r)}) <= 1
  /\ (\E r \in RunIds : InFlight(r)) => isProcessing

(* ------------------------------- C17 ----------------------------------- *)

\* C17: once a run submitted while the hand-off of an earlier run was
\* pending has ended, the pending slot does not hold that hand-off any more.
C17_NewRequestOverwrites ==
  \A r \in RunIds :
    (runs[r].kind = "submit" /\ runs[r].pc = "done"
       /\ runs[r].handoffAtStart # 0) =>
      ~(/\ pendingDeveloperContext.present
        /\ pendingDeveloperContext.origin = runs[r].handoffAtStart
        /\ pendingDeveloperContext.userRequest =
             runs[runs[r].handoffAtStart].userRequest)

(* ------------------------------- C18 ----------------------------------- *)

\* the messages appended outside any run other than the missing-key message
OtherNotices ==
  {i \in DOMAIN messages[0] : messages[0][i].text # <<"Missing Gemini API key">>}

\* C18: every submission of blank input has been reported by a system
\* message.
C18_BlankSubmissionReported == ignored <= Cardinality(OtherNotices)

(* ------------------------------- C19 ----------------------------------- *)

MissingKeyMessage ==
  [sender |-> "system", agentRole |-> "none", text |-> <<"Missing Gemini API key">>]

\* C19: while no API key is resolved, a step creates no task, issues no
\* request, starts no run, leaves the file tree and the pending hand-off as
\* they were and isProcessing false, and appends nothing or exactly one
\* system message about the missing key.
C19_MissingKeyStartsNothing ==
  [][apiKey = Empty =>
       /\ tasks' = tasks
       /\ requests' = requests
       /\ runs' = runs
       /\ files' = files
       /\ pendingDeveloperContext' = pendingDeveloperContext
       /\ ~isProcessing /\ ~isProcessing'
       /\ \/ messages' = messages
          \/ messages' = [messages EXCEPT ![0] = Append(@, MissingKeyMessage)]
    ]_vars

C19_Witness ==
  /\ apiKey = Empty
  /\ Len(messages[0]) >= 1
  /\ messages[0][1] = MissingKeyMessage
  /\ \A r \in RunIds : tasks[r] = <<>> /\ requests[r] = <<>>
  /\ ~isProcessing

(* ------------------------------- C20 ----------------------------------- *)

\* the step in which the developer stage of run r produces its file
Emits(r) == ~runs[r].newFile.present /\ runs'[r].newFile.present

IsSrcFolder(node) == node.name = <<"src">> /\ node.type = "folder"

\* the first folder named src of the root, 0 when there is none
FirstSrc ==
  IF \E i \in DOMAIN files : IsSrcFolder(files[i])
  THEN CHOOSE i \in DOMAIN files :
         IsSrcFolder(files[i]) /\ \A j \in 1..(i - 1) : ~IsSrcFolder(files[j])
  ELSE 0

Others(nodes, name) == SelectSeq(nodes, LAMBDA n : n.name # name)

\* the step put node into the children of root node i, replacing by name
PlacedIn(i, node) ==
  /\ Len(files') = Len(files)
  /\ \A j \in DOMAIN files : j # i => files'[j] = files[j]
  /\ files'[i] = [files[i] EXCEPT !.children = files'[i].children]
  /\ Cardinality({k \in DOMAIN files'[i].children :
                    files'[i].children[k].name = node.name}) = 1
  /\ \E k \in DOMAIN files'[i].children : files'[i].children[k] = node
  /\ Others(files'[i].children, node.name) = Others(files[i].children, node.name)

Activated(r) ==
  /\ activeFile' = runs'[r].newFile
  /\ activeTab' = "preview"

C21_SiblingNamesUnique == UniqueNames(files)

\* the payload carries code 403, status PERMISSION_DENIED and a message that
\* contains "reported as leaked"
LeakedPayload(e) ==
  /\ e.kind \in {"Error", "object"}
  /\ e.code = 403
  /\ e.status = "PERMISSION_DENIED"
  /\ includes(e.message, LeakMarker)

GenericFallback ==
  <<"Error connecting to agents. Mission aborted.",
    " Please verify your Gemini API key and network access.">>

\* C22: a submitted run whose generation call threw an error whose payload
\* has code 403, status PERMISSION_DENIED and a message containing "reported
\* as leaked" has a system message that contains the leaked-key remediation
\* text, and neither the raw message of the payload nor the generic fallback.
C22_LeakedKeyRemediation ==
  \A r \in RunIds :
    (runs[r].kind = "submit" /\ runs[r].threw /\ LeakedPayload(runs[r].error)) =>
      /\ SystemMessages(r) # {}
      /\ \A i \in SystemMessages(r) :
           /\ includes(messages[r][i].text, LeakedKeyText)
           /\ ~includes(messages[r][i].text, runs[r].error.message)
           /\ messages[r][i].text # GenericFallback
\* the class formatAgentError puts an object payload in
ErrorClass(e) ==
  IF isLeakedKey(e) THEN "leaked"
  ELSE IF isPermissionDenied(e) THEN "permission-denied"
  ELSE "generic"

Reported(r) ==
  /\ runs[r].kind = "submit"
  /\ runs[r].threw
  /\ runs[r].error.kind = "object"

\* C23: two submitted runs whose generation calls threw object payloads of
\* different classes (leaked key, permission denied, generic) have system
\* messages with different texts.
C23_ClassesHaveDistinctMessages ==
  \A r1, r2 \in RunIds :
    (Reported(r1) /\ Reported(r2)
       /\ ErrorClass(runs[r1].error) # ErrorClass(runs[r2].error)) =>
      \A i \in SystemMessages(r1), j \in SystemMessages(r2) :
        messages[r1][i].text # messages[r2][j].text
BackslashRun(text, j) ==
  Cardinality({k \in indexOf(text, "{")..(j - 1) :
                 \A m \in k..(j - 1) : text[m] = "\\"})

\* the quote at index j opens or ends a string
Delimits(text, j) == text[j] = "\"" /\ BackslashRun(text, j) % 2 = 0

OutsideString(text, j) ==
  Cardinality({k \in indexOf(text, "{")..j : Delimits(text, k)}) % 2 = 0

\* opening minus closing braces outside strings, from the first opening
\* brace to index j
Depth(text, j) ==
  Cardinality({k \in indexOf(text, "{")..j :
                 text[k] = "{" /\ OutsideString(text, k)})
  - Cardinality({k \in indexOf(text, "{")..j :
                   text[k] = "}" /\ OutsideString(text, k)})

\* the text has an opening brace and the first one is never closed
Unclosed(text) ==
  /\ indexOf(text, "{") # 0
  /\ \A j \in indexOf(text, "{")..Len(text) : Depth(text, j) > 0

NoBraces(text) == indexOf(text, "{") = 0 /\ indexOf(text, "}") = 0

\* C25 (as stated): cleanJson called on a text whose braces are unbalanced
\* returns the span from the first opening to the last closing brace, and
\* called on a text without braces it returns the text.
C25_SpanOfUnbalanced ==
  (call.fn = "cleanJson" /\ call.returned) =>
    /\ NoBraces(call.arg) => call.result = call.arg
    /\ Unclosed(call.arg) =>
         call.result = SubSeq(call.arg, indexOf(call.arg, "{"),
                              lastIndexOf(call.arg, "}"))

\* C25 (amended): cleanJson returns for every text; called on a text whose
\* first opening brace is never closed it returns the span from that brace
\* to the last closing brace when a closing brace follows it, and the whole
\* text when none does; called on a text without an opening brace it
\* returns the text.
C25_SpanOrWholeText ==
  (call.fn = "cleanJson" /\ call.returned) =>
    /\ indexOf(call.arg, "{") = 0 => call.result = call.arg
    /\ Unclosed(call.arg) =>
         call.result =
           IF lastIndexOf(call.arg, "}") > indexOf(call.arg, "{")
           THEN SubSeq(call.arg, indexOf(call.arg, "{"),
                       lastIndexOf(call.arg, "}"))
           ELSE call.arg

\* the span of }{{} has been returned
C25_Witness ==
  /\ call.fn = "cleanJson"
  /\ call.returned
  /\ call.arg = <<"}", "{", "{", "}">>
  /\ Unclosed(call.arg)
  /\ call.result = <<"{", "{", "}">>
\* C26: extractMarkup called on a source whose `return (` opens the
\* parenthesized block M returns the whole of M, trimmed, with every
\* className= replaced by class=, also when M holds parentheses.
C26_WholeParenthesizedBlock ==
  (call.fn = "extractMarkup" /\ call.returned /\ call.parts # <<>>
     /\ trim(call.parts[2]) # Empty) =>
    call.result = trim(replaceAll(call.parts[2], ClassNameAttr, ClassAttr))
\* the group or slice extractMarkup hands to normalize, Empty when every
\* pattern fails or captures nothing
UsedSlice(content) ==
  IF returnParenGroup(content) # Empty THEN returnParenGroup(content)
  ELSE IF returnFragmentGroup(content) # Empty THEN returnFragmentGroup(content)
  ELSE IF indexOf(content, "<") # 0
          /\ lastIndexOf(content, ">") > indexOf(content, "<")
       THEN SubSeq(content, indexOf(content, "<"), lastIndexOf(content, ">"))
  ELSE Empty

\* no `(` behind a `return`, no <> ... </> and no `<` before a `>`
NoneMatches(content) ==
  /\ returnParenStarts(content) = {}
  /\ returnFragmentGroup(content) = Empty
  /\ ~\E i, j \in DOMAIN content : i < j /\ content[i] = "<" /\ content[j] = ">"

\* C27 (as stated): extractMarkup never returns an empty string, and it
\* returns the <pre> dump of the source when none of the three patterns
\* matches or when the slice the first matching pattern captured is blank.
C27_BlankMatchDumpsSource ==
  (call.fn = "extractMarkup" /\ call.returned) =>
    /\ call.result # Empty
    /\ NoneMatches(call.arg) => call.result = preOf(call.arg)
    /\ (returnParenStarts(call.arg) # {}
          /\ trim(returnParenGroup(call.arg)) = Empty) =>
         call.result = preOf(call.arg)

\* C27 (amended): extractMarkup returns for every source and never returns
\* an empty string; it returns the <pre> dump of the source when none of the
\* three patterns matches, and when the slice it took (the one of the first
\* pattern that captured something) is blank.
C27_NeverEmpty ==
  (call.fn = "extractMarkup" /\ call.returned) =>
    /\ call.result # Empty
    /\ NoneMatches(call.arg) => call.result = preOf(call.arg)
    /\ trim(UsedSlice(call.arg)) = Empty => call.result = preOf(call.arg)

\* `return ( )` has been answered with the dump of the source
C27_Witness ==
  /\ call.fn = "extractMarkup"
  /\ call.returned
  /\ call.arg = Return \o <<" ", "(", " ", ")">>
  /\ UsedSlice(call.arg) = <<" ">>
  /\ call.result = <<PreOpen>> \o call.arg \o <<PreClose>>
\* the document carries the snapshot, as the fallback of its script and in
\* its state panel
Embeds(doc, snapshot) ==
  /\ includes(doc, <<DocScript>> \o stringify(snapshot) \o <<DocTail>>)
  /\ includes(doc, <<DocState>> \o escapeHtml(stringify(snapshot)) \o <<DocScript>>)

\* a step in which a refresh of the preview wrote something
Refreshed ==
  \/ appStateSnapshot' # appStateSnapshot
  \/ livePreviewDoc' # livePreviewDoc
  \/ previousPreviewDoc' # previousPreviewDoc

\* C28 (as stated): a refresh of the preview with a target sets the snapshot
\* and the document in one step, the snapshot being the one of the target's
\* content and the document embedding exactly that snapshot; while there is
\* no target no step changes the snapshot or the document.
C28_RefreshEmbedsSnapshot ==
  [][/\ Refreshed =>
          /\ activeFile.present
          /\ appStateSnapshot' = analyzeAppState(activeFile.content)
          /\ Embeds(livePreviewDoc', appStateSnapshot')
     /\ ~activeFile.present =>
          UNCHANGED <<appStateSnapshot, livePreviewDoc>>]_vars

\* C28 (amended): a refresh of the preview with a target sets the snapshot
\* and the document in one step, both from the target's content: the
\* snapshot is the one of that content, and the document is empty when the
\* content is empty and otherwise holds the markup of that content and
\* embeds exactly that snapshot; while there is no target no step changes
\* the snapshot or the document.
C28_RefreshFromOneContent ==
  [][/\ Refreshed =>
          /\ activeFile.present
          /\ appStateSnapshot' = analyzeAppState(activeFile.content)
          /\ IF activeFile.content = Empty THEN livePreviewDoc' = Empty
             ELSE /\ Embeds(livePreviewDoc', appStateSnapshot')
                  /\ includes(livePreviewDoc',
                              <<DocHead>> \o extractMarkup(activeFile.content)
                                \o <<DocState>>)
     /\ ~activeFile.present =>
          UNCHANGED <<appStateSnapshot, livePreviewDoc>>]_vars

\* a file with two useState declarations has been refreshed
C28_Witness ==
  /\ activeFile.present
  /\ activeFile.content = StateOne \o StateTwo \o MarkupOne
  /\ Len(appStateSnapshot) = 2
  /\ appStateSnapshot = analyzeAppState(activeFile.content)
  /\ Embeds(livePreviewDoc, appStateSnapshot)
\* C29: a message delivered to the preview document changes the stored
\* state only if the origin of the message is the origin of the document: a
\* message of another origin or without an origin leaves the item as it was.
C29_OnlyOwnOriginWrites ==
  [][(call'.fn = "message"
        /\ symbiotic_app_state_data' # symbiotic_app_state_data) =>
       call'.parts[1] = OwnOrigin]_vars
\* the places in the order whose value, trimmed, is not empty
NonEmptyAt(env) ==
  {i \in DOMAIN GEMINI_KEY_ENV_ORDER :
     /\ env[GEMINI_KEY_ENV_ORDER[i]].set
     /\ trim(env[GEMINI_KEY_ENV_ORDER[i]].value) # Empty}

\* ... and is not the leaked key either
UsableAt(env) ==
  {i \in NonEmptyAt(env) : trim(env[GEMINI_KEY_ENV_ORDER[i]].value) # LeakedKey}

ThemeFiles ==
  {i \in DOMAIN files :
     files[i].type = "file" /\ files[i].name = <<"theme.json">>}

\* C32: after every change of the design tokens, by the designer stage or
\* by an edit of the tokens field (clearing it included), the root of the
\* file tree holds exactly one file named theme.json and its content is the
\* current design tokens.
C32_ThemeFileMirrorsTokens ==
  /\ Cardinality(ThemeFiles) = 1
  /\ \A i \in ThemeFiles : files[i].content = designTokens

(* ------------------------------- C34 ----------------------------------- *)

\* the step in which the team run r returns at its pause check
PausesForHandoff(r) ==
  /\ runs[r].kind = "submit"
  /\ runs[r].target = "team"
  /\ runs[r].shouldPauseForEdit
  /\ runs[r].pc = "await_architect"
  /\ runs'[r].pc = "done"
  /\ ~runs'[r].threw

\* C34: when a team run pauses for the hand-off, the pending hand-off holds
\* the sanitized user request and the options of that run, the design
\* context of that run's designer stage and the plan of that run's architect
\* stage.
C34_PausedHandoffIsOwn ==
  [][\A r \in RunIds :
       PausesForHandoff(r) =>
         /\ pendingDeveloperContext'.present
         /\ pendingDeveloperContext'.userRequest = runs[r].userRequest
         /\ pendingDeveloperContext'.options = runs[r].options
         /\ pendingDeveloperContext'.design = runs[r].designContext
         /\ \E i \in DOMAIN messages'[r] :
              /\ messages'[r][i].agentRole = "architect"
              /\ messages'[r][i].text = pendingDeveloperContext'.architectPlan
    ]_vars

(* ------------------------------- C35 ----------------------------------- *)

\* the submitted run r is in its developer or critic stage
InDeveloperStage(r) ==
  /\ runs[r].kind = "submit"
  /\ runs[r].pc \in {"await_developer", "await_critic"}

\* C35: the design context and the architect plan that a submitted run hands
\* to its developer and critic stages are the ones of that run (those its
\* designer and architect stages produced, or the defaults of its submission
\* when the stage was skipped), whatever hand-off an earlier run left
\* pending.
C35_DeveloperGetsOwnContext ==
  \A r \in RunIds :
    InDeveloperStage(r) =>
      /\ runs[r].params.design = runs[r].designContext
      /\ runs[r].params.architectPlan = runs[r].architectPlan

(* ------------------------------- C36 ----------------------------------- *)

\* the step in which the resumed run r finishes without an error
ResumeFinishes(r) ==
  /\ runs[r].kind = "resume"
  /\ InFlight(r)
  /\ runs'[r].pc = "done"
  /\ ~runs'[r].threw

\* C36: the completion of a resumed run clears only the hand-off it
\* consumed: a hand-off that another run stored while the resumed run was
\* awaiting its calls is still pending after the resumed run has finished.
C36_KeepsNewerHandoff ==
  [][\A r \in RunIds :
       (ResumeFinishes(r)
          /\ pendingDeveloperContext.present
          /\ pendingDeveloperContext.origin # runs[r].handoffAtStart) =>
         pendingDeveloperContext' = pendingDeveloperContext
    ]_vars

(* ------------------------------- C37 ----------------------------------- *)

\* the step in which the designer call of run r returns text that does not
\* parse
DesignerUnparsed(r) ==
  /\ runs[r].pc = "await_designer"
  /\ requests'[r][Len(requests[r])].outcome = "garbage"

\* C37: the step in which the designer call of a run returns text that does
\* not parse leaves the design tokens, library and brief and the file tree
\* (theme.json with it) as they were, appends no message, completes the
\* designer task, stores the hand-off of the run with the design context the
\* run was submitted with, and goes on as after a parsed output: a team run
\* creates its architect task and issues the architect request, a designer
\* run ends without an error.
C37_UnparsedDesignContinues ==
  [][\A r \in RunIds :
       DesignerUnparsed(r) =>
         /\ designTokens' = designTokens
         /\ designLibrary' = designLibrary
         /\ designBrief' = designBrief
         /\ files' = files
         /\ messages' = messages
         /\ tasks'[r][runs[r].taskId].assignedTo = "designer"
         /\ tasks'[r][runs[r].taskId].status = "completed"
         /\ ~runs'[r].threw
         /\ pendingDeveloperContext' =
              [present |-> TRUE, userRequest |-> runs[r].userRequest,
               architectPlan |-> Empty, options |-> runs[r].options,
               design |-> runs[r].designContext, origin |-> r]
         /\ IF runs[r].target = "team"
            THEN /\ runs'[r].pc = "await_architect"
                 /\ runs'[r].shouldPauseForEdit = runs[r].pauseEnabled
                 /\ Len(tasks'[r]) = Len(tasks[r]) + 1
                 /\ tasks'[r][Len(tasks'[r])].assignedTo = "architect"
                 /\ requests'[r][Len(requests'[r])].role = "architect"
            ELSE /\ runs'[r].pc = "done"
                 /\ ~isProcessing'
    ]_vars

\* a team run whose designer output did not parse is in its architect
\* stage, its hand-off stored with the tokens it was submitted with
C37_Witness ==
  \E r \in RunIds :
    /\ Submitted(r, "team")
    /\ requests[r][1].outcome = "garbage"
    /\ tasks[r][1].status = "completed"
    /\ runs[r].pc = "await_architect"
    /\ pendingDeveloperContext.present
    /\ pendingDeveloperContext.origin = r
    /\ pendingDeveloperContext.design.tokens = <<"edited">>
    /\ designTokens = Empty

(* ------------------------------- C38 ----------------------------------- *)

\* C38: every refresh of the preview with a target sets the previous
\* preview document to the document that was live immediately before the
\* refresh (null when that was empty), also when the same active file is
\* refreshed again.
C38_PreviousIsLastLive ==
  [][lastPreviewRun' # lastPreviewRun =>
       previousPreviewDoc' = DocOrNull(livePreviewDoc)]_vars

(* ------------------------------- C31 ----------------------------------- *)

Fragments ==
  {"userRequest", "architectPlan", "tokens", "library", "brief",
   "projectGraph", "current", "previous"}

\* the cap of a fragment of a request
CapOf(request, fragment) ==
  IF request.role = "designer" /\ fragment = "current" THEN PreviewCap
  ELSE PromptCap

\* C31: every fragment of every generation request (user request, architect
\* plan, design tokens, library, brief, project graph, preview documents) is
\* at most as long as the cap, 6000 characters, and 4000 for the preview
\* document of the designer's request, however long the outputs of earlier
\* calls were.
C31_FragmentsCapped ==
  \A r \in RunIds :
    \A i \in DOMAIN requests[r] :
      \A f \in Fragments :
        Len(requests[r][i].contents[f]) <= CapOf(requests[r][i], f)

(* ------------------------------- C33 ----------------------------------- *)

\* the preview document of the file the developer stage of run r produced
DocOfRun(r) ==
  buildPreviewDocument(runs[r].newFile, analyzeAppState(runs[r].newFile.content))

\* C33: the critic's request of a run carries, as current, the preview
\* document rendered from the file the developer stage of that run produced
\* and, as previous, the document that was live before that run ("none" when
\* there was none); it never carries as current a document rendered before
\* the developer stage ran.
C33_CriticSeesBothDocuments ==
  \A r \in RunIds :
    \A i \in RequestsOf(r, "critic") :
      /\ requests[r][i].contents.current =
           sanitizeForPrompt(DocOfRun(r), PromptCap)
      /\ requests[r][i].contents.previous =
           sanitizeForPrompt(Or(runs[r].livePreviewDoc, <<"none">>), PromptCap)
====
